---- MODULE Spec2Model ----
(***************************************************************************)
(* Flight delay forecaster: the tiered forecast pipeline                   *)
(* (flight_delay_bayes/bayes/pipeline.py), the Beta-Binomial updater, the  *)
(* prior estimator, the delay curve, and the walk-forward validator        *)
(* (flight_delay_bayes/eval/walk_forward.py, eval/backtest.py).            *)
(*                                                                         *)
(* Numbers.  Probabilities and Beta parameters are exact rationals <<n,d>> *)
(* in lowest terms with d > 0; floating-point rounding is not modelled.    *)
(* The updater's cached intercept (a log-odds) is represented by the       *)
(* probability it is the logit of: logit and the logistic function are     *)
(* inverse bijections, and only the logistic image is ever read.           *)
(* Python's None is the empty tuple; a present value x is <<x>>.           *)
(***************************************************************************)
EXTENDS Integers, Sequences, FiniteSets, TLC

VARIABLES
    \* ---- process-wide state of pipeline.py (module globals) ----
    online_updater,   \* _online_updater: None or <<[intercept_mean |-> rational]>>
    fast_model,       \* _fast_model: None or <<"model">>
    delay_predictor,  \* _delay_predictor: None or <<DelayPredictor>>
    \* ---- one forecast_probability call ----
    pc,               \* position in forecast_probability
    carrier,          \* flight_iata argument (None when idle)
    status_info,      \* dict returned by get_flight_status (None before it)
    weather_data,     \* dict returned by _get_weather_async (None before it)
    p_late,           \* local p_late: None or <<rational>>
    hier_updated,     \* local hier_updated
    bb,               \* Tier 3 locals: None or <<[alpha, beta, updated]>>
    result,           \* returned dict (None until built)
    error,            \* exception leaving forecast_probability (None if none)
    \* ---- history of the call (what the properties speak about) ----
    attempts,         \* tiers entered, in order: <<[tier, p]>>
    fed,              \* observations passed to a posterior update, in order
    conditions,       \* collaborator conditions met during the call
    \* ---- historical store and validation ----
    db,               \* rows of historic_flights
    vpc,              \* position in run_validation
    vargs,            \* run_validation arguments [start_year, end_year]
    test_year,        \* loop variable of run_validation
    results,          \* local list `results` of run_validation
    validator_results,\* WalkForwardValidator.results
    verror,           \* exception leaving run_validation / run_backtest
    folds,            \* history of the run: one trace per test year attempted
    backtest,         \* last run_backtest call: None or <<[route, year, run]>>
    \* ---- print_validation_summary ----
    results_df,       \* frame given to print_validation_summary: None or <<rows>>
    spc,              \* position in print_validation_summary
    verdict,          \* None or <<[brier_ok, wins_ok, overall_pass]>>
    \* ---- one BetaBinomialModel object and calls of the pure functions ----
    bb_model,         \* the object's fields: None or <<[alpha, beta]>>
    objects,          \* number of BetaBinomialModel objects constructed
    initial,          \* <<alpha, beta>> the object was constructed with (None before)
    observed,         \* observations the object accepted, in order
    call              \* the last call: None or <<[op, ..., raised, result]>>

fvars == <<online_updater, fast_model, delay_predictor, pc, carrier, status_info,
           weather_data, p_late, hier_updated, bb, result, error, attempts, fed,
           conditions>>
wvars == <<vpc, vargs, test_year, results, validator_results, verror, folds, backtest>>
gvars == <<results_df, spc, verdict>>
uvars == <<bb_model, objects, initial, observed, call>>
vars == <<fvars, db, wvars, gvars, uvars>>

None == <<>>
Some(x) == <<x>>
Val(o) == o[1]

-----------------------------------------------------------------------------
(* Exact rational arithmetic *)

Abs(x) == IF x < 0 THEN -x ELSE x

RECURSIVE GCD(_, _)
GCD(a, b) == IF b = 0 THEN a ELSE GCD(b, a % b)

Rat(n, d) ==
    LET g == GCD(Abs(n), Abs(d))
        s == IF d < 0 THEN -1 ELSE 1
    IN  <<(s * n) \div g, (s * d) \div g>>

RAdd(x, y) == Rat(x[1] * y[2] + y[1] * x[2], x[2] * y[2])
RSub(x, y) == Rat(x[1] * y[2] - y[1] * x[2], x[2] * y[2])
RMul(x, y) == Rat(x[1] * y[1], x[2] * y[2])
RDiv(x, y) == Rat(x[1] * y[2], x[2] * y[1])
RLt(x, y) == x[1] * y[2] < y[1] * x[2]
RLe(x, y) == x[1] * y[2] <= y[1] * x[2]
RMin(x, y) == IF RLe(x, y) THEN x ELSE y
RMax(x, y) == IF RLe(x, y) THEN y ELSE x
RInt(n) == <<n, 1>>

RECURSIVE SumSeq(_)
SumSeq(s) == IF s = <<>> THEN RInt(0) ELSE RAdd(Head(s), SumSeq(Tail(s)))

-----------------------------------------------------------------------------
(* bayes/updater.py: BetaBinomialModel.  alpha and beta are rationals. *)

\* a constructor without the positivity check
BetaBinomialModelUnchecked(alpha, beta) == Some([alpha |-> alpha, beta |-> beta])

\* an update that adds the observation to alpha
updateAddingObservation(m, observation) ==
    [m EXCEPT !.alpha = RAdd(m.alpha, RInt(observation))]

\* an update that moves one unit between the parameters
updateKeepingTotal(m, observation) ==
    IF observation = 1
    THEN [m EXCEPT !.alpha = RAdd(m.alpha, RInt(1)), !.beta = RSub(m.beta, RInt(1))]
    ELSE [m EXCEPT !.beta = RAdd(m.beta, RInt(1)), !.alpha = RSub(m.alpha, RInt(1))]

\* an update with the two branches exchanged
updateSwapped(m, observation) ==
    IF observation = 1
    THEN [m EXCEPT !.beta = RAdd(m.beta, RInt(1))]
    ELSE [m EXCEPT !.alpha = RAdd(m.alpha, RInt(1))]

\* dataclass construction with __post_init__: the model, or None for ValueError
BetaBinomialModel(alpha, beta) ==
    IF RLe(alpha, RInt(0)) \/ RLe(beta, RInt(0))
    THEN None
    ELSE Some([alpha |-> alpha, beta |-> beta])

\* BetaBinomialModel.update (observation in {0, 1})
update(m, observation) ==
    IF observation = 1
    THEN [m EXCEPT !.alpha = RAdd(m.alpha, RInt(1))]
    ELSE [m EXCEPT !.beta = RAdd(m.beta, RInt(1))]

predictive_p_on_time(m) == RDiv(m.beta, RAdd(m.alpha, m.beta))

-----------------------------------------------------------------------------
(* bayes/prior_estimator.py over the rows of historic_flights.             *)
(* A row is [route, year, day, late] with late in {0, 1}.                  *)

StoreStates == {"ok", "missing", "unopenable", "no_table", "error"}

_query_counts(route, rows) ==
    LET hit == {r \in rows : r.route = route}
    IN  <<Cardinality(hit), Cardinality({r \in hit : r.late = 1})>>

\* a prior estimator that raises when the store is not there
compute_beta_priorStrict(route, store, rows) ==
    IF store # "ok" THEN None
    ELSE LET c == _query_counts(route, rows)
         IN  Some(<<RAdd(Rat(1, 2), RInt(c[2])), RAdd(Rat(1, 2), RInt(c[1] - c[2])), c[1]>>)

\* compute_beta_prior: <<alpha, beta, n>>, or None when the query raises an
\* exception other than duckdb.IOException / duckdb.CatalogException
compute_beta_prior(route, store, rows) ==
    IF store \in {"missing", "unopenable"} THEN Some(<<Rat(1, 2), Rat(1, 2), 0>>)
    ELSE IF store = "error" THEN None
    ELSE LET c == IF store = "no_table" THEN <<0, 0>> ELSE _query_counts(route, rows)
             n == c[1]
             k == c[2]
         IN  Some(<<RAdd(Rat(1, 2), RInt(k)), RAdd(Rat(1, 2), RInt(n - k)), n>>)

-----------------------------------------------------------------------------
(* bayes/delay_curve.py: DelayPredictor.  Delays (minutes) and              *)
(* probabilities are rationals.                                             *)

\* x <= y for the fractions a/b and c/d (b, d > 0), by integer parts and
\* reciprocals of the remainders, so that no product is formed
RECURSIVE FracLe(_, _, _, _)
FracLe(a, b, c, d) ==
    IF a \div b # c \div d THEN a \div b < c \div d
    ELSE IF a % b = 0 THEN TRUE
    ELSE IF c % d = 0 THEN FALSE
    ELSE FracLe(d, c % d, b, a % b)

RLeq(x, y) == FracLe(x[1], x[2], y[1], y[2])
RMinq(x, y) == IF RLeq(x, y) THEN x ELSE y
RMaxq(x, y) == IF RLeq(x, y) THEN y ELSE x

\* create_default_delay_curve()
create_default_delay_curve ==
    [mean_ontime_delay |-> RInt(0), mean_late_delay |-> RInt(25),
     threshold_prob |-> Rat(1, 2), data_years |-> "default"]

\* curves calculate_delay_curve writes to models/delay_curve.json:
\* mean_ontime_delay is the mean departure delay of the flights that were
\* not late (early departures count with their negative minutes, down to
\* -60), mean_late_delay that of the late ones, and threshold_prob lies in
\* [0.1, 0.8].  One from data where on-time flights leave early on average,
\* one from data where they leave a little late and late ones very late.
EarlyDepartureCurve ==
    [mean_ontime_delay |-> RInt(-2), mean_late_delay |-> RInt(40),
     threshold_prob |-> Rat(3, 10), data_years |-> "2022-2023"]

LongDelayCurve ==
    [mean_ontime_delay |-> RInt(3), mean_late_delay |-> RInt(90),
     threshold_prob |-> Rat(1, 10), data_years |-> "2022-2023"]

CalculatedCurves == {EarlyDepartureCurve, LongDelayCurve}

\* DelayPredictor(curve_data): the three fields __init__ keeps
DelayPredictor(curve_data) ==
    [mean_ontime_delay |-> curve_data.mean_ontime_delay,
     mean_late_delay |-> curve_data.mean_late_delay,
     threshold_prob |-> curve_data.threshold_prob]

\* DelayPredictor.predict_delay
predict_delay(self, late_probability) ==
    IF RLe(late_probability, self.threshold_prob) THEN self.mean_ontime_delay
    ELSE LET progress == RDiv(RSub(late_probability, self.threshold_prob),
                              RSub(RInt(1), self.threshold_prob))
         IN  RAdd(self.mean_ontime_delay,
                  RMul(progress, RSub(self.mean_late_delay, self.mean_ontime_delay)))

\* the low-delay ratios handed out in the wrong order
low_delay_thresholdsReversed(p_15) ==
    [p_late_15 |-> p_15,
     p_late_30 |-> RMul(p_15, Rat(1, 20)),
     p_late_45 |-> RMul(p_15, Rat(1, 10)),
     p_late_60 |-> RMul(p_15, Rat(3, 10))]

\* the branch expected_delay < 15 of predict_threshold_probabilities
low_delay_thresholds(p_15) ==
    [p_late_15 |-> p_15,
     p_late_30 |-> RMul(p_15, Rat(3, 10)),
     p_late_45 |-> RMul(p_15, Rat(1, 10)),
     p_late_60 |-> RMul(p_15, Rat(1, 20))]

\* np.exp(-lambda_param * 15) with lambda_param > 0 is a float in [0, 1]
\* (0 by underflow, 1 by rounding); its value is not computed here: each of
\* these factors is taken as a possible one
DecayFactors == {RInt(0), Rat(1, 10), Rat(1, 2), Rat(9, 10), RInt(1)}

\* the decay branch without the caps at 80% of the previous value
decay_thresholdsUncapped(p_15, e) ==
    [p_late_15 |-> p_15,
     p_late_30 |-> RMaxq(RInt(0), RMul(p_15, e)),
     p_late_45 |-> RMaxq(RInt(0), RMul(p_15, RMul(e, e))),
     p_late_60 |-> RMaxq(RInt(0), RMul(p_15, RMul(e, RMul(e, e))))]

\* the exponential-decay branch for one value e of np.exp(-lambda_param * 15);
\* np.exp(-lambda_param * 30) and np.exp(-lambda_param * 45) are e^2 and e^3
decay_thresholds(p_15, e) ==
    LET p_30 == RMinq(RMul(p_15, e), RMul(p_15, Rat(4, 5)))
        p_45 == RMinq(RMul(p_15, RMul(e, e)), RMul(p_30, Rat(4, 5)))
        p_60 == RMinq(RMul(p_15, RMul(e, RMul(e, e))), RMul(p_45, Rat(4, 5)))
    IN  [p_late_15 |-> p_15,
         p_late_30 |-> RMaxq(RInt(0), p_30),
         p_late_45 |-> RMaxq(RInt(0), p_45),
         p_late_60 |-> RMaxq(RInt(0), p_60)]

\* DelayPredictor.predict_threshold_probabilities: the dictionaries it can
\* return
predict_threshold_probabilities(self, base_late_prob) ==
    LET p_15 == base_late_prob
        expected_delay == predict_delay(self, base_late_prob)
    IN  IF RLt(expected_delay, RInt(15)) THEN {low_delay_thresholds(p_15)}
        ELSE {decay_thresholds(p_15, e) : e \in DecayFactors}

\* round(x, 1), ties to the even tenth
round1(x) ==
    LET q == (10 * x[1]) \div x[2]
        r == (10 * x[1]) % x[2]
        t == IF 2 * r < x[2] THEN q
             ELSE IF 2 * r > x[2] THEN q + 1
             ELSE IF q % 2 = 0 THEN q ELSE q + 1
    IN  Rat(t, 10)

-----------------------------------------------------------------------------
(* bayes/pipeline.py: inputs of a forecast request *)

\* keys of AIRPORT_COORDS
AIRPORT_COORDS ==
    {"ATL", "LAX", "ORD", "DFW", "DEN", "JFK", "SFO", "LAS", "SEA", "CLT", "MIA",
     "PHX", "IAH", "MCO", "EWR", "MSP", "BOS", "DTW", "PHL", "LGA", "DCA", "IAD",
     "BWI", "MDW", "SLC", "PDX", "SAN", "TPA", "STL", "CVG", "RSW", "FLL", "AUS",
     "SAT", "YYZ", "YVR", "LHR", "CDG", "FRA", "AMS", "NRT", "ICN", "ATH", "FCO",
     "MUC", "ZUR", "BRU", "MAD", "BCN", "VIE", "ARN", "CPH", "HEL", "OSL"}

\* Flights a request may name: <<carrier, origin, dest>>.  DL JFK-LAX is a
\* listed carrier on congested, coast-to-coast airports; HA HNL-SEA has an
\* unlisted carrier and an origin without coordinates.
Routes == {<<"DL", "JFK", "LAX">>, <<"HA", "HNL", "SEA">>}

\* departure.scheduled as reported: absent, not ISO, or an ISO time (its hour)
ScheduledDeps == {None, <<"garbage">>, <<"iso", 15>>}
FlightStatuses == {"scheduled", "active", "landed"}
\* departure.delay as reported
DelayMinutes == {None, Some(14), Some(15), Some(16)}

\* what get_weather_for_flight can deliver
NullWeather == [wx_temp_c |-> None, wx_wind_kt |-> None, wx_precip_mm |-> None]
Forecasts ==
    {[wx_temp_c |-> Some(20), wx_wind_kt |-> Some(5), wx_precip_mm |-> Some(0)],
     [wx_temp_c |-> Some(-5), wx_wind_kt |-> Some(30), wx_precip_mm |-> Some(6)]}

\* posterior mean of the Intercept in a persisted trace, as a probability
TraceIntercepts == {Rat(1, 5), Rat(3, 10)}
\* what the pickled classifier's predict_proba returns
ClassifierProbs == {Rat(1, 10), Rat(4, 5)}
\* state of a model artifact on disk when a lazy loader looks at it
FileStates == {"missing", "unloadable", "ok"}
\* models/hier_model.pkl besides: the metadata loads but the trace file it
\* names is not there
HierFileStates == FileStates \cup {"no_trace"}
\* models/delay_curve.json: absent, not a curve, or a curve
CurveFileStates == {"missing", "malformed", "ok"}

\* datetime.fromisoformat(...).hour, None on ValueError
_extract_dep_hour(scheduled_dep) ==
    IF scheduled_dep = None THEN None
    ELSE IF scheduled_dep[1] = "iso" THEN Some(scheduled_dep[2])
    ELSE None

\* `x or 0.0`
OrZero(o) == IF o = None THEN 0 ELSE Val(o)

\* "landed" forgotten
HasLiveObservationActiveOnly(si) ==
    si.status = "active" /\ si.delay_minutes # None

\* status in {"active", "landed"} and delay_min is not None
HasLiveObservation(si) ==
    si.status \in {"active", "landed"} /\ si.delay_minutes # None

\* the late flag the pipeline derives from delay_minutes: int(delay_min > 15)
Observation(delay_min) == IF delay_min > 15 THEN 1 ELSE 0

-----------------------------------------------------------------------------
(* bayes/hier_online.py: OnlineHierarchicalUpdater *)

\* base_priors, in thousandths
base_priors(c) ==
    CASE c = "DL" -> 220 [] c = "AA" -> 260 [] c = "UA" -> 240
      [] c = "SW" -> 280 [] c = "B6" -> 320 [] c = "AS" -> 180
      [] OTHER -> 250

\* congested_airports, in thousandths
congested_airports(a) ==
    CASE a = "LGA" -> 150 [] a = "EWR" -> 120 [] a = "JFK" -> 100
      [] a = "ORD" -> 80  [] a = "ATL" -> 60  [] a = "DEN" -> 50
      [] a = "SFO" -> 80  [] a = "LAX" -> 70
      [] OTHER -> 0

\* hour_adjustments, in thousandths
hour_adjustments(h) ==
    CASE h \in 6..8 -> -50 [] h \in 14..18 -> 80 [] h \in 19..22 -> 50
      [] h = 23 -> 120 [] h \in 0..5 -> 120
      [] OTHER -> 0

international_airports == {"LHR", "CDG", "FRA", "NRT", "ICN", "ATH", "FCO", "YYZ", "YVR"}
east_coast == {"JFK", "LGA", "EWR", "BOS", "DCA", "BWI", "PHL", "MIA"}
west_coast == {"LAX", "SFO", "SEA", "PDX", "SAN"}

\* weather_adjustment of _conjugate_update, in thousandths (inputs are numbers)
weather_adjustment(t, w, p) ==
    (IF t < 0 THEN 200 ELSE IF t < 5 THEN 120 ELSE IF t > 38 THEN 180
     ELSE IF t > 32 THEN 100 ELSE IF t > 28 THEN 50 ELSE 0)
  + (IF w > 35 THEN 250 ELSE IF w > 25 THEN 150 ELSE IF w > 15 THEN 80
     ELSE IF w > 10 THEN 30 ELSE 0)
  + (IF p > 15 THEN 300 ELSE IF p > 8 THEN 200 ELSE IF p > 3 THEN 120
     ELSE IF p > 1 THEN 60 ELSE 0)

\* base_prob of _conjugate_update after clamping, in thousandths
base_prob(c, o, d, h, t, w, p) ==
    LET raw == base_priors(c) + congested_airports(o) + congested_airports(d) \div 2
               + hour_adjustments(h)
               + (IF o \in international_airports \/ d \in international_airports
                  THEN 120 ELSE 0)
               + (IF (o \in east_coast /\ d \in west_coast)
                     \/ (o \in west_coast /\ d \in east_coast)
                  THEN 80 ELSE 0)
               + weather_adjustment(t, w, p)
        lo == IF raw > 850 THEN 850 ELSE raw
    IN  IF lo < 80 THEN 80 ELSE lo

\* _conjugate_update: the probability it returns, which is also the value it
\* caches as intercept_mean.  row is the one-row frame built by the caller.
_conjugate_update(row) ==
    LET bp == Rat(base_prob(row.carrier, row.origin, row.dest, row.dep_hour,
                            row.wx_temp_c, row.wx_wind_kt, row.wx_precip_mm), 1000)
        pseudo_n == RInt(30)
        alpha0 == RAdd(RMul(bp, pseudo_n), Rat(1, 2))
        beta0 == RAdd(RMul(RSub(RInt(1), bp), pseudo_n), Rat(1, 2))
        alpha == IF row.late = 1 THEN RAdd(alpha0, RInt(1)) ELSE alpha0
        beta == IF row.late = 1 THEN beta0 ELSE RAdd(beta0, RInt(1))
    IN  RDiv(alpha, RAdd(alpha, beta))

\* the updater object after _conjugate_update(row): intercept_mean overwritten
CacheAfterUpdate(u, row) == [u EXCEPT !.intercept_mean = _conjugate_update(row)]

\* OnlineHierarchicalUpdater.predict
predict(u, wx) ==
    LET b0 == u.intercept_mean
        b1 == IF wx.wx_temp_c # None
                 /\ (Val(wx.wx_temp_c) > 35 \/ Val(wx.wx_temp_c) < -10)
              THEN RMul(b0, Rat(11, 10)) ELSE b0
        b2 == IF wx.wx_wind_kt # None /\ Val(wx.wx_wind_kt) > 25
              THEN RMul(b1, Rat(115, 100)) ELSE b1
        b3 == IF wx.wx_precip_mm # None /\ Val(wx.wx_precip_mm) > 5
              THEN RMul(b2, Rat(12, 10)) ELSE b2
    IN  RMin(RInt(1), RMax(RInt(0), b3))

-----------------------------------------------------------------------------
(* bayes/pipeline.py: lazy loaders and the fast classifier *)

\* HierarchicalDelayModel.load: None when it raises, else the instance
load(file, intercept) ==
    IF file \in {"missing", "unloadable"} THEN None
    ELSE Some([trace |-> IF file = "no_trace" THEN None ELSE Some(intercept),
               _fitted |-> TRUE])

\* HierarchicalDelayModel.predict raises ValueError
predict_raises(base_model) == ~base_model._fitted \/ base_model.trace = None

\* an updater built although the base model has no trace
OnlineHierarchicalUpdaterWithoutTrace(base_model) ==
    Some([intercept_mean |-> IF base_model.trace = None THEN Rat(1, 5)
                             ELSE Val(base_model.trace)])

\* OnlineHierarchicalUpdater.__init__ on the loaded base model: None when
\* _extract_baseline_stats raises ValueError("Base model has no trace data")
OnlineHierarchicalUpdater(base_model) ==
    IF base_model.trace = None THEN None
    ELSE Some([intercept_mean |-> Val(base_model.trace)])

\* _get_online_updater: the value of _online_updater after the call.  file is
\* the state of DEFAULT_HIER_MODEL, intercept the trace's posterior mean.
_get_online_updater(current, file, intercept) ==
    IF current # None THEN current
    ELSE IF file = "missing" THEN None
    ELSE LET base_model == load(file, intercept)
         IN  IF base_model = None THEN None
             ELSE OnlineHierarchicalUpdater(Val(base_model))

\* a loader that reads the file on every call
_get_fast_modelReloading(current, file) ==
    IF file = "ok" THEN Some("model") ELSE None

\* _get_fast_model: the value of _fast_model after the call
_get_fast_model(current, file) ==
    IF current # None THEN current
    ELSE IF file = "ok" THEN Some("model")
    ELSE None

\* what json.load reads from models/delay_curve.json when load_delay_curve
\* gets that far (the service is run with the curve of early departures);
\* nothing is read otherwise, and the default curve stands in
CurveFileContents(current, file) ==
    IF current = None /\ file = "ok" THEN {EarlyDepartureCurve}
    ELSE {create_default_delay_curve}

\* _get_delay_predictor: the value of _delay_predictor after the call (the
\* cache stays empty when load_delay_curve raises)
\* curve_data is what the file holds when it is a curve.
_get_delay_predictor(current, file, curve_data) ==
    IF current # None THEN current
    ELSE IF file = "ok" THEN Some(DelayPredictor(curve_data))
    ELSE IF file = "missing" THEN Some(DelayPredictor(create_default_delay_curve))
    ELSE None

\* FileNotFoundError escaping as well
DelayCurveRaisesWhenMissing(current, file) == current = None /\ file # "ok"

\* load_delay_curve raising something other than FileNotFoundError
\* (json.JSONDecodeError, KeyError), which _get_delay_predictor does not catch
DelayCurveRaises(current, file) == current = None /\ file = "malformed"

\* weather_multiplier of _predict_with_fast_model
weather_multiplier(wx) ==
    LET t == wx.wx_temp_c
        w == wx.wx_wind_kt
        p == wx.wx_precip_mm
        mt == IF t = None THEN RInt(1)
              ELSE IF Val(t) < 0 THEN Rat(14, 10)
              ELSE IF Val(t) > 35 THEN Rat(13, 10)
              ELSE IF Val(t) < 5 \/ Val(t) > 30 THEN Rat(115, 100)
              ELSE RInt(1)
        mw == IF w = None THEN RInt(1)
              ELSE IF Val(w) > 35 THEN Rat(16, 10)
              ELSE IF Val(w) > 25 THEN Rat(13, 10)
              ELSE IF Val(w) > 15 THEN Rat(11, 10)
              ELSE RInt(1)
        mp == IF p = None THEN RInt(1)
              ELSE IF Val(p) > 10 THEN Rat(18, 10)
              ELSE IF Val(p) > 5 THEN Rat(14, 10)
              ELSE IF Val(p) > 1 THEN Rat(12, 10)
              ELSE RInt(1)
    IN  RMul(RMul(mt, mw), mp)

\* what the unpickled classifier does when asked: raise (None) or return a
\* probability
ClassifierOutcomes == {None} \cup {Some(q) : q \in ClassifierProbs}

\* _predict_with_fast_model given the loaded model (or None) and what the
\* classifier does
_predict_with_fast_model(model, classifier, wx) ==
    IF model = None THEN None
    ELSE IF classifier = None THEN None
    ELSE Some(RMin(Rat(95, 100), RMul(Val(classifier), weather_multiplier(wx))))

\* guard of step 3: `if online_updater and dep_hour is not None`
Tier1Guard(updater, dep_hour) == updater # None /\ dep_hour # None

\* step 4 entered whatever step 3 produced
Tier2GuardIgnoringTier1(p, dep_hour) == dep_hour # None

\* guard of step 4: `if p_late is None and dep_hour is not None`
Tier2Guard(p, dep_hour) == p = None /\ dep_hour # None

\* guard of step 5: `if p_late is None`
Tier3Guard(p) == p = None

-----------------------------------------------------------------------------
(* bayes/pipeline.py: forecast_probability, one action per numbered step *)

ForecastIdle ==
    /\ pc = "idle" /\ carrier = None /\ status_info = None /\ weather_data = None
    /\ p_late = None /\ hier_updated = FALSE /\ bb = None /\ result = None
    /\ error = None /\ attempts = <<>> /\ fed = <<>> /\ conditions = {}

shared == <<online_updater, fast_model, delay_predictor>>
history == <<attempts, fed, conditions>>

\* a caller invokes forecast_probability(flight_iata, flight_num, dep_date)
Request ==
    /\ pc = "idle"
    /\ \E r \in Routes : carrier' = Some(r[1])
    /\ pc' = "status"
    /\ UNCHANGED <<shared, status_info, weather_data, p_late, hier_updated, bb,
                   result, error, history, db, wvars, gvars>>
    /\ UNCHANGED uvars

\* step 1, the fetch fails: get_flight_status raises and nothing catches it
GetStatusFails ==
    /\ pc = "status"
    /\ error' = Some("StatusFetchFailed")
    /\ conditions' = conditions \cup {"status_fetch_failed"}
    /\ pc' = "done"
    /\ UNCHANGED <<shared, carrier, status_info, weather_data, p_late, hier_updated,
                   bb, result, attempts, fed, db, wvars, gvars>>
    /\ UNCHANGED uvars

\* step 1, the fetch answers; a response without origin or dest raises
\* RuntimeError
GetStatus ==
    /\ pc = "status"
    /\ \E r \in {x \in Routes : x[1] = Val(carrier)}, has_airports \in BOOLEAN,
          sd \in ScheduledDeps, st \in FlightStatuses, dm \in DelayMinutes :
         /\ status_info' = Some([origin |-> IF has_airports THEN Some(r[2]) ELSE None,
                                 dest |-> IF has_airports THEN Some(r[3]) ELSE None,
                                 scheduled_dep |-> sd, status |-> st,
                                 delay_minutes |-> dm])
         /\ IF has_airports
            THEN pc' = "weather" /\ error' = error /\ conditions' = conditions
            ELSE /\ pc' = "done" /\ error' = Some("MissingOriginDest")
                 /\ conditions' = conditions \cup {"origin_dest_missing"}
    /\ UNCHANGED <<shared, carrier, weather_data, p_late, hier_updated, bb, result,
                   attempts, fed, db, wvars, gvars>>
    /\ UNCHANGED uvars

\* _get_weather_async: the dict it returns; fetched is None when
\* get_weather_for_flight raises
_get_weather_async(airport, scheduled_dep_dt, fetched) ==
    IF scheduled_dep_dt = None \/ airport \notin AIRPORT_COORDS THEN NullWeather
    ELSE IF fetched = None THEN NullWeather
    ELSE Val(fetched)

\* step 2
GetWeather ==
    /\ pc = "weather"
    /\ \E fetched \in {None} \cup {Some(f) : f \in Forecasts} :
         LET si == Val(status_info)
             dt == _extract_dep_hour(si.scheduled_dep)
             asked == dt # None /\ Val(si.origin) \in AIRPORT_COORDS
         IN  /\ weather_data' = Some(_get_weather_async(Val(si.origin), dt, fetched))
             /\ conditions' = IF asked /\ fetched = None
                              THEN conditions \cup {"weather_fetch_failed"}
                              ELSE conditions
    /\ pc' = "tier1"
    /\ UNCHANGED <<shared, carrier, status_info, p_late, hier_updated, bb, result,
                   error, attempts, fed, db, wvars, gvars>>
    /\ UNCHANGED uvars

\* the one-row frame update_data of step 3
UpdateData(c, si, wx) ==
    [carrier |-> c, origin |-> Val(si.origin), dest |-> Val(si.dest),
     dep_hour |-> Val(_extract_dep_hour(si.scheduled_dep)),
     late |-> Observation(Val(si.delay_minutes)),
     wx_temp_c |-> OrZero(wx.wx_temp_c), wx_wind_kt |-> OrZero(wx.wx_wind_kt),
     wx_precip_mm |-> OrZero(wx.wx_precip_mm)]

\* step 3: the hierarchical model.  raises: the try block raises before the
\* updater has computed anything (it writes its cache as its last statement).
Tier1 ==
    /\ pc = "tier1"
    /\ \E file \in HierFileStates, intercept \in TraceIntercepts, raises \in BOOLEAN :
         LET si == Val(status_info)
             wx == Val(weather_data)
             updater == _get_online_updater(online_updater, file, intercept)
             dep_hour == _extract_dep_hour(si.scheduled_dep)
             enter == Tier1Guard(updater, dep_hour)
             live == HasLiveObservation(si)
             row == UpdateData(Val(carrier), si, wx)
             p == IF ~enter \/ raises THEN None
                  ELSE IF live THEN Some(_conjugate_update(row))
                  ELSE Some(predict(Val(updater), wx))
         IN  /\ online_updater' = IF enter /\ ~raises /\ live
                                  THEN Some(CacheAfterUpdate(Val(updater), row))
                                  ELSE updater
             /\ p_late' = p
             /\ hier_updated' = (enter /\ ~raises /\ live)
             /\ fed' = IF enter /\ ~raises /\ live THEN Append(fed, row.late) ELSE fed
             /\ attempts' = Append(attempts, [tier |-> 1, p |-> p])
             /\ conditions' = conditions
                    \cup (IF online_updater = None /\ file = "missing"
                          THEN {"hier_artifact_missing"} ELSE {})
                    \cup (IF online_updater = None /\ file = "unloadable"
                          THEN {"hier_artifact_unloadable"} ELSE {})
                    \cup (IF online_updater = None /\ file = "no_trace"
                          THEN {"hier_trace_missing"} ELSE {})
                    \cup (IF enter /\ raises THEN {"hier_raised"} ELSE {})
    /\ pc' = "tier2"
    /\ UNCHANGED <<fast_model, delay_predictor, carrier, status_info, weather_data,
                   bb, result, error, db, wvars, gvars>>
    /\ UNCHANGED uvars

\* step 4: the fast classifier
Tier2 ==
    /\ pc = "tier2"
    /\ \E file \in FileStates, classifier \in ClassifierOutcomes :
         LET si == Val(status_info)
             dep_hour == _extract_dep_hour(si.scheduled_dep)
             enter == Tier2Guard(p_late, dep_hour)
             model == _get_fast_model(fast_model, file)
             p == _predict_with_fast_model(model, classifier, Val(weather_data))
         IN  IF enter
             THEN /\ fast_model' = model
                  /\ p_late' = p
                  /\ attempts' = Append(attempts, [tier |-> 2, p |-> p])
                  /\ conditions' = conditions
                         \cup (IF fast_model = None /\ file = "missing"
                               THEN {"fast_artifact_missing"} ELSE {})
                         \cup (IF fast_model = None /\ file = "unloadable"
                               THEN {"fast_artifact_unloadable"} ELSE {})
                         \cup (IF model # None /\ classifier = None
                               THEN {"fast_raised"} ELSE {})
             ELSE UNCHANGED <<fast_model, p_late, attempts, conditions>>
    /\ pc' = "tier3"
    /\ UNCHANGED <<online_updater, delay_predictor, carrier, status_info,
                   weather_data, hier_updated, bb, result, error, fed, db, wvars,
                   gvars>>
    /\ UNCHANGED uvars

\* step 5: the Beta-Binomial fallback, or the dummy alpha/beta of the else branch
Tier3 ==
    /\ pc = "tier3"
    /\ \E store \in StoreStates :
         LET si == Val(status_info)
             route == <<Val(carrier), Val(si.origin), Val(si.dest)>>
             prior == compute_beta_prior(route, store, db)
             made == BetaBinomialModel(Val(prior)[1], Val(prior)[2])
             live == HasLiveObservation(si)
             observation == Observation(Val(si.delay_minutes))
             model == IF live THEN update(Val(made), observation) ELSE Val(made)
             p == Some(RSub(RInt(1), predictive_p_on_time(model)))
         IN  IF ~Tier3Guard(p_late)
             THEN /\ bb' = Some([alpha |-> RInt(1), beta |-> RInt(1),
                                 updated |-> hier_updated])
                  /\ pc' = "finish"
                  /\ UNCHANGED <<p_late, error, attempts, fed, conditions>>
             ELSE IF prior = None \/ made = None
             THEN /\ error' = Some("BaselineFailure")
                  /\ pc' = "done"
                  /\ attempts' = Append(attempts, [tier |-> 3, p |-> None])
                  /\ conditions' = conditions
                         \cup (IF store = "error" THEN {"route_history_store_error"}
                               ELSE {})
                  /\ UNCHANGED <<p_late, bb, fed>>
             ELSE /\ p_late' = p
                  /\ bb' = Some([alpha |-> model.alpha, beta |-> model.beta,
                                 updated |-> live])
                  /\ fed' = IF live THEN Append(fed, observation) ELSE fed
                  /\ attempts' = Append(attempts, [tier |-> 3, p |-> p])
                  /\ conditions' = conditions
                         \cup (IF store \in {"missing", "unopenable", "no_table"}
                               THEN {"route_history_unavailable"} ELSE {})
                         \cup (IF store = "ok" /\ Val(prior)[3] = 0
                               THEN {"route_history_unseen"} ELSE {})
                  /\ pc' = "finish"
                  /\ error' = error
    /\ UNCHANGED <<shared, carrier, status_info, weather_data, hier_updated, result,
                   db, wvars, gvars>>
    /\ UNCHANGED uvars

\* the provenance entry "fast_model_used" of the result
fast_model_used(model, p, updated_by_hier) ==
    model # None /\ p # None /\ ~updated_by_hier

\* steps 6-8: delay curve and the result dict
Finish ==
    /\ pc = "finish"
    /\ \E curve_file \in CurveFileStates, file \in FileStates :
       \E curve_data \in CurveFileContents(delay_predictor, curve_file) :
         LET model == _get_fast_model(fast_model, file)
             predictor == _get_delay_predictor(delay_predictor, curve_file, curve_data)
         IN  IF DelayCurveRaises(delay_predictor, curve_file)
             THEN /\ error' = Some("DelayCurveUnreadable")
                  /\ conditions' = conditions
                         \cup (IF curve_file = "malformed"
                               THEN {"delay_curve_malformed"} ELSE {})
                  /\ UNCHANGED <<fast_model, delay_predictor, result>>
             ELSE /\ delay_predictor' = predictor
                  /\ fast_model' = model
                  /\ \E threshold_probs \in
                           predict_threshold_probabilities(Val(predictor), Val(p_late)) :
                       result' = Some([p_late |-> Val(p_late),
                                     p_late_30 |-> threshold_probs.p_late_30,
                                     p_late_45 |-> threshold_probs.p_late_45,
                                     p_late_60 |-> threshold_probs.p_late_60,
                                     exp_delay_min |->
                                         round1(predict_delay(Val(predictor), Val(p_late))),
                                     alpha |-> Val(bb).alpha,
                                     beta |-> Val(bb).beta,
                                     updated |-> Val(bb).updated,
                                     hierarchical_used |-> hier_updated,
                                     fast_model_used |->
                                         fast_model_used(model, p_late, hier_updated)])
                  /\ conditions' = conditions
                         \cup (IF delay_predictor = None /\ curve_file = "missing"
                               THEN {"delay_curve_missing"} ELSE {})
                  /\ error' = error
    /\ pc' = "done"
    /\ UNCHANGED <<online_updater, carrier, status_info, weather_data, p_late,
                   hier_updated, bb, attempts, fed, db, wvars, gvars>>
    /\ UNCHANGED uvars

\* the call returns (or its exception reaches the caller); locals are dropped
Return ==
    /\ pc = "done"
    /\ pc' = "idle" /\ carrier' = None /\ status_info' = None /\ weather_data' = None
    /\ p_late' = None /\ hier_updated' = FALSE /\ bb' = None /\ result' = None
    /\ error' = None /\ attempts' = <<>> /\ fed' = <<>> /\ conditions' = {}
    /\ UNCHANGED <<shared, db, wvars, gvars>>
    /\ UNCHANGED uvars

-----------------------------------------------------------------------------
(* The forecasting service: requests served one after another *)

\* a row of historic_flights
Row(route, year, day, late) == [route |-> route, year |-> year, day |-> day, late |-> late]

\* the store the forecasting service runs against: history for DL JFK-LAX,
\* none for the other route
ForecastDbs ==
    {{Row(<<"DL", "JFK", "LAX">>, 2022, 1, 1), Row(<<"DL", "JFK", "LAX">>, 2022, 2, 0),
      Row(<<"DL", "JFK", "LAX">>, 2023, 1, 1)}}

ValidationIdle ==
    /\ vpc = "idle" /\ vargs = None /\ test_year = None /\ results = <<>>
    /\ validator_results = <<>> /\ verror = None /\ folds = <<>> /\ backtest = None

SummaryIdle == results_df = None /\ spc = "idle" /\ verdict = None

\* no BetaBinomialModel object under observation, no pure function called
UnitsIdle ==
    /\ bb_model = None /\ objects = 0 /\ initial = None /\ observed = <<>> /\ call = None

Init ==
    /\ online_updater = None /\ fast_model = None /\ delay_predictor = None
    /\ ForecastIdle
    /\ db \in ForecastDbs
    /\ ValidationIdle
    /\ SummaryIdle
    /\ UnitsIdle

Next ==
    \/ Request
    \/ GetStatusFails
    \/ GetStatus
    \/ GetWeather
    \/ Tier1
    \/ Tier2
    \/ Tier3
    \/ Finish
    \/ Return

Spec == Init /\ [][Next]_vars

-----------------------------------------------------------------------------
(* eval/backtest.py and eval/walk_forward.py: metrics over a vector of      *)
(* predicted probabilities y_pred (rationals) and of labels y_true (0 / 1). *)

\* sum of the values of the function f over the finite set S of its arguments
RECURSIVE RSum(_, _)
RSum(f, S) ==
    IF S = {} THEN RInt(0)
    ELSE LET x == CHOOSE x \in S : TRUE IN RAdd(f[x], RSum(f, S \ {x}))

RAbs(x) == <<Abs(x[1]), x[2]>>

\* the squared errors summed and not averaged
brier_scoreSum(pred, truth) ==
    LET idx == 1..Len(pred)
        sq == [i \in idx |-> RMul(RSub(pred[i], RInt(truth[i])), RSub(pred[i], RInt(truth[i])))]
    IN  RSum(sq, idx)

\* backtest.brier_score: mean((pred - truth) ** 2)
brier_score(pred, truth) ==
    LET idx == 1..Len(pred)
        sq == [i \in idx |-> RMul(RSub(pred[i], RInt(truth[i])), RSub(pred[i], RInt(truth[i])))]
    IN  RDiv(RSum(sq, idx), RInt(Len(pred)))

\* default number of equal-width bins of the calibration error (n_bins=10)
n_bins == 10

\* WalkForwardValidator._expected_calibration_error with bins bins
_expected_calibration_error(y_true, y_prob, bins) ==
    LET idx == 1..Len(y_prob)
        in_bin(b) == {i \in idx : RLt(Rat(b - 1, bins), y_prob[i]) /\ RLe(y_prob[i], Rat(b, bins))}
        mean(v, S) == RDiv(RSum(v, S), RInt(Cardinality(S)))
        truth == [i \in idx |-> RInt(y_true[i])]
        term == [b \in 1..bins |->
                    IF in_bin(b) = {} THEN RInt(0)
                    ELSE RMul(RAbs(RSub(mean(y_prob, in_bin(b)), mean(truth, in_bin(b)))),
                              Rat(Cardinality(in_bin(b)), Len(y_prob)))]
    IN  RSum(term, 1..bins)

\* roc_auc_score guarded by len(np.unique(y_true)) > 1, else 0.5
roc_auc(y_true, y_pred) ==
    LET idx == 1..Len(y_pred)
        pos == {i \in idx : y_true[i] = 1}
        neg == {i \in idx : y_true[i] = 0}
        pairs == pos \X neg
        score == [q \in pairs |->
                    IF RLt(y_pred[q[2]], y_pred[q[1]]) THEN RInt(1)
                    ELSE IF y_pred[q[1]] = y_pred[q[2]] THEN Rat(1, 2) ELSE RInt(0)]
    IN  IF pos = {} \/ neg = {} THEN Rat(1, 2)
        ELSE RDiv(RSum(score, pairs), RInt(Cardinality(pairs)))

\* log_loss with its ValueError fallback: sklearn raises when y_true holds a
\* single label, and the code then reports 10.0; a computed loss is a
\* logarithm, carried here as None (its value is not modelled)
log_loss(y_true, y_pred) ==
    IF \E i, j \in 1..Len(y_true) : y_true[i] # y_true[j] THEN None ELSE Some(RInt(10))

\* the poor-score dictionary returned when a model could not be evaluated
Sentinel == [brier |-> RInt(1), log_loss |-> Some(RInt(10)), auc |-> Rat(1, 2), ece |-> RInt(1)]

\* the metrics dictionary both evaluations build from labels and predictions
Metrics(y_true, y_pred) ==
    [brier |-> brier_score(y_pred, y_true),
     log_loss |-> log_loss(y_true, y_pred),
     auc |-> roc_auc(y_true, y_pred),
     ece |-> _expected_calibration_error(y_true, y_pred, n_bins)]

-----------------------------------------------------------------------------
(* eval/walk_forward.py and eval/backtest.py: the baseline evaluation *)

\* largest number of rows in historic_flights
MaxFlights == 3

\* years and days of the flight dates in the store
WalkYears == {2018, 2019, 2020}
WalkDays == {1, 2}

\* the rows the store can hold: one route flies on every day, the other on
\* one day of each year
WalkRows ==
    {Row(<<"DL", "JFK", "LAX">>, y, d, l) : y \in WalkYears, d \in WalkDays, l \in {0, 1}}
    \cup {Row(<<"HA", "HNL", "SEA">>, y, 1, l) : y \in WalkYears, l \in {0, 1}}

\* flight_date order
DateLe(a, b) == a.year < b.year \/ (a.year = b.year /\ a.day <= b.day)

\* sort_values("flight_date") / ORDER BY flight_date: the orders of the rows
\* that a sort by date can produce (rows of one date in any order)
sort_values(rows) ==
    {s \in [1..Cardinality(rows) -> rows] :
        \A i, j \in 1..Cardinality(rows) : i < j => s[i] # s[j] /\ DateLe(s[i], s[j])}

\* _load_data: the rows of the year range
_load_data(start_year, end_year, rows) ==
    {r \in rows : r.year >= start_year /\ r.year <= end_year}

\* a loop body in the reverse order: the model is updated with the flight's
\* outcome and the prediction is taken from the updated model
UpdateThenPredict(m, late) ==
    <<RSub(RInt(1), predictive_p_on_time(update(m, late))), update(m, late)>>

\* body of the sequential loop for one flight: the prediction is taken from
\* the model first, then the model is updated with the flight's outcome
PredictThenUpdate(m, late) ==
    <<RSub(RInt(1), predictive_p_on_time(m)), update(m, late)>>

\* the predictions recorded while walking the flights in the given order
RECURSIVE SequentialPredictions(_, _)
SequentialPredictions(m, flights) ==
    IF Len(flights) = 0 THEN <<>>
    ELSE LET step == PredictThenUpdate(m, Head(flights).late)
         IN  <<step[1]>> \o SequentialPredictions(step[2], Tail(flights))

\* one route of a baseline evaluation: the prior that seeds the model, the
\* flights in the order processed, and the predictions recorded
BaselineRun(route, flights, prior) ==
    [route |-> route,
     seed |-> <<prior[1], prior[2]>>,
     flights |-> flights,
     preds |-> SequentialPredictions(Val(BetaBinomialModel(prior[1], prior[2])), flights)]

\* the per-route orders in which a test set can be walked
RouteOrders(test_df) ==
    LET test_routes == {r.route : r \in test_df}
        route_test(rt) == {r \in test_df : r.route = rt}
    IN  {f \in [test_routes -> UNION {sort_values(route_test(rt)) : rt \in test_routes}] :
            \A rt \in test_routes : f[rt] \in sort_values(route_test(rt))}

\* concatenation of a field of the runs, route after route
RECURSIVE Collect(_, _)
Collect(runs, field) ==
    IF runs = {} THEN <<>>
    ELSE LET r == CHOOSE r \in runs : TRUE
         IN  (IF field = "preds" THEN r.preds ELSE [i \in 1..Len(r.flights) |-> r.flights[i].late])
             \o Collect(runs \ {r}, field)

\* _evaluate_baseline_model: None when it raises, else its metrics and runs
_evaluate_baseline_model(test_df, store, rows, orders) ==
    LET test_routes == {r.route : r \in test_df}
    IN  IF \E rt \in test_routes : compute_beta_prior(rt, store, rows) = None
        THEN None
        ELSE LET runs == {BaselineRun(rt, orders[rt], Val(compute_beta_prior(rt, store, rows))) :
                             rt \in test_routes}
                 predictions == Collect(runs, "preds")
                 true_labels == Collect(runs, "late")
             IN  Some([metrics |-> IF Len(predictions) = 0 THEN Sentinel
                                   ELSE Metrics(true_labels, predictions),
                       runs |-> runs])

\* outcomes of fitting and querying the hierarchical model on a fold: an
\* exception (None), or one predicted probability for every test flight
HierPredictions == {Rat(1, 4)}
HierOutcomes == {None} \cup {Some(q) : q \in HierPredictions}

\* a failed candidate scored as if it had been perfect
_evaluate_hierarchical_modelLenient(y_true, outcome) ==
    IF outcome = None
    THEN [brier |-> RInt(0), log_loss |-> Some(RInt(0)), auc |-> Rat(1, 2), ece |-> RInt(0)]
    ELSE Metrics(y_true, [i \in 1..Len(y_true) |-> Val(outcome)])

\* _evaluate_hierarchical_model
_evaluate_hierarchical_model(y_true, outcome) ==
    IF outcome = None THEN Sentinel
    ELSE Metrics(y_true, [i \in 1..Len(y_true) |-> Val(outcome)])

\* a tie counted as a win
hier_winsOnTie(hier_brier, baseline_brier) == RLe(hier_brier, baseline_brier)

\* hier_metrics["brier"] < baseline_metrics["brier"]
hier_wins(hier_brier, baseline_brier) == RLt(hier_brier, baseline_brier)

\* the result dictionary of run_fold
FoldResult(train_start, train_end, year, train_size, test_size, baseline_metrics, hier_metrics) ==
    [train_start |-> train_start, train_end |-> train_end, test_year |-> year,
     train_size |-> train_size, test_size |-> test_size,
     baseline_brier |-> baseline_metrics.brier,
     baseline_log_loss |-> baseline_metrics.log_loss,
     baseline_auc |-> baseline_metrics.auc,
     baseline_ece |-> baseline_metrics.ece,
     hier_brier |-> hier_metrics.brier,
     hier_log_loss |-> hier_metrics.log_loss,
     hier_auc |-> hier_metrics.auc,
     hier_ece |-> hier_metrics.ece,
     brier_improvement |-> RSub(baseline_metrics.brier, hier_metrics.brier),
     hier_wins |-> hier_wins(hier_metrics.brier, baseline_metrics.brier)]

-----------------------------------------------------------------------------
(* eval/walk_forward.py: run_validation, one step per test year *)

\* arguments of run_validation
ValidationArgs ==
    {[start_year |-> 2019, end_year |-> 2020],
     [start_year |-> 2020, end_year |-> 2020],
     [start_year |-> 2020, end_year |-> 2019]}

\* what the prior query can meet in a fold whose data has just been loaded
\* from the same file
FoldPriorStores == {"ok", "error"}

\* the trace of one test year: what run_fold did with it
FoldTrace(train_start, train_end, year, outcome, baseline_failed, hier_failed, runs) ==
    [train_start |-> train_start, train_end |-> train_end, test_year |-> year,
     outcome |-> outcome, baseline_failed |-> baseline_failed,
     hier_failed |-> hier_failed, runs |-> runs]

\* a training window that also takes in the test year
TrainWindowThroughTestYear(start_year, year) == <<start_year - 4, year>>

\* the expanding training window <<train_start, train_end>> of a test year
TrainWindow(start_year, year) == <<start_year - 4, year - 1>>

\* a fold is run whenever it has test data
HasTestData(train_df, test_df) == test_df # {}

\* run_fold goes on only with training data and test data
HasData(train_df, test_df) == train_df # {} /\ test_df # {}

RunValidation ==
    /\ vpc = "idle" /\ pc = "idle"
    /\ \E args \in ValidationArgs :
         /\ vargs' = Some(args)
         /\ test_year' = Some(args.start_year)
    /\ results' = <<>> /\ folds' = <<>> /\ vpc' = "loop"
    /\ UNCHANGED <<fvars, db, validator_results, verror, backtest, gvars>>
    /\ UNCHANGED uvars

\* one iteration of the loop over test years, run_fold included
RunFold ==
    /\ vpc = "loop"
    /\ Val(test_year) <= Val(vargs).end_year
    /\ LET year == Val(test_year)
           train_start == TrainWindow(Val(vargs).start_year, year)[1]
           train_end == TrainWindow(Val(vargs).start_year, year)[2]
           skip ==
               /\ folds' = Append(folds, FoldTrace(train_start, train_end, year, "skipped",
                                                   FALSE, FALSE, {}))
               /\ test_year' = Some(year + 1)
               /\ UNCHANGED <<vpc, results, verror>>
           abort(exc, trace) ==
               /\ folds' = Append(folds, trace)
               /\ verror' = Some(exc) /\ vpc' = "done"
               /\ UNCHANGED <<test_year, results>>
       IN  IF train_end < train_start
           THEN skip
           ELSE \E store \in StoreStates :
                  IF store # "ok"
                  THEN abort(IF store = "missing" THEN "FileNotFoundError" ELSE "StoreError",
                             FoldTrace(train_start, train_end, year, "aborted", FALSE, FALSE, {}))
                  ELSE LET train_df == _load_data(train_start, train_end, db)
                           test_df == _load_data(year, year, db)
                       IN  IF ~HasData(train_df, test_df)
                           THEN skip
                           ELSE \E orders \in RouteOrders(test_df), prior_store \in FoldPriorStores,
                                     hier \in HierOutcomes :
                                  LET base == _evaluate_baseline_model(test_df, prior_store, db, orders)
                                  IN  IF base = None
                                      THEN abort("StoreError",
                                                 FoldTrace(train_start, train_end, year, "aborted",
                                                           TRUE, FALSE, {}))
                                      ELSE LET y_true == Collect(Val(base).runs, "late")
                                               hier_metrics == _evaluate_hierarchical_model(y_true, hier)
                                               fold_result == FoldResult(train_start, train_end, year,
                                                                    Cardinality(train_df),
                                                                    Cardinality(test_df),
                                                                    Val(base).metrics, hier_metrics)
                                           IN  /\ results' = Append(results, fold_result)
                                               /\ folds' = Append(folds,
                                                     FoldTrace(train_start, train_end, year, "recorded",
                                                               FALSE, hier = None, Val(base).runs))
                                               /\ test_year' = Some(year + 1)
                                               /\ UNCHANGED <<vpc, verror>>
    /\ UNCHANGED <<fvars, db, vargs, validator_results, backtest, gvars>>
    /\ UNCHANGED uvars

\* an empty list of results let through
no_resultsIgnored(fold_results) == FALSE

\* `if not results`
no_results(fold_results) == fold_results = <<>>

\* the end of run_validation: ValueError without a completed fold, else the
\* results are stored on the validator and returned as a frame
FinishValidation ==
    /\ vpc = "loop"
    /\ Val(test_year) > Val(vargs).end_year
    /\ IF no_results(results)
       THEN /\ verror' = Some("ValueError")
            /\ UNCHANGED <<validator_results, results_df>>
       ELSE /\ validator_results' = results
            /\ results_df' = Some(results)
            /\ UNCHANGED verror
    /\ vpc' = "done"
    /\ UNCHANGED <<fvars, db, vargs, test_year, results, folds, backtest, spc, verdict>>
    /\ UNCHANGED uvars

\* _fetch_flights: None when the query raises, else the rows found
_fetch_flights(route, year, store, rows) ==
    IF store = "error" THEN None
    ELSE IF store # "ok" THEN Some({})
    ELSE Some({r \in rows : r.route = route /\ r.year = year})

\* eval/backtest.py: run_backtest
RunBacktest ==
    /\ vpc = "idle" /\ pc = "idle"
    /\ \E route \in Routes, year \in WalkYears, store \in StoreStates :
         LET rows == _fetch_flights(route, year, store, db)
         IN  IF rows = None
             THEN verror' = Some("StoreError") /\ UNCHANGED backtest
             ELSE IF Val(rows) = {}
             THEN verror' = Some("ValueError") /\ UNCHANGED backtest
             ELSE \E flights \in sort_values(Val(rows)) :
                    /\ backtest' = Some([route |-> route, year |-> year,
                                         run |-> BaselineRun(route, flights,
                                                    Val(compute_beta_prior(route, store, db)))])
                    /\ UNCHANGED verror
    /\ vpc' = "done"
    /\ UNCHANGED <<fvars, db, vargs, test_year, results, validator_results, folds, gvars>>
    /\ UNCHANGED uvars

-----------------------------------------------------------------------------
(* eval/walk_forward.py: print_validation_summary *)

\* int(0.8 * total_folds)
IntEightTenths(n) == (8 * n) \div 10

Max(a, b) == IF a >= b THEN a ELSE b

\* the acceptance criteria computed from a non-empty frame
AcceptanceCriteria(frame) ==
    LET total_folds == Len(frame)
        hier_brier_mean == RDiv(SumSeq([i \in 1..total_folds |-> frame[i].hier_brier]),
                                RInt(total_folds))
        wins == Cardinality({i \in 1..total_folds : frame[i].hier_wins})
        brier_ok == RLe(hier_brier_mean, Rat(125, 1000))
        wins_ok == wins >= Max(1, IntEightTenths(total_folds))
    IN  [brier_ok |-> brier_ok, wins_ok |-> wins_ok, overall_pass |-> brier_ok /\ wins_ok]

PrintValidationSummary ==
    /\ spc = "idle" /\ results_df # None
    /\ verdict' = IF Len(Val(results_df)) = 0 THEN None
                  ELSE Some(AcceptanceCriteria(Val(results_df)))
    /\ spc' = "done"
    /\ UNCHANGED <<fvars, db, wvars, results_df>>
    /\ UNCHANGED uvars

\* the caller is done with the validator, the frame and the backtest metrics
ValidationReturn ==
    /\ vpc = "done"
    /\ results_df = None \/ spc = "done"
    /\ vpc' = "idle" /\ vargs' = None /\ test_year' = None /\ results' = <<>>
    /\ validator_results' = <<>> /\ verror' = None /\ folds' = <<>> /\ backtest' = None
    /\ results_df' = None /\ spc' = "idle" /\ verdict' = None
    /\ UNCHANGED <<fvars, db>>
    /\ UNCHANGED uvars

-----------------------------------------------------------------------------
(* Validation runs and backtests over every small store *)

\* the subsets of S with at most k elements
RECURSIVE SubsetsUpTo(_, _)
SubsetsUpTo(S, k) ==
    IF k = 0 THEN {{}}
    ELSE LET smaller == SubsetsUpTo(S, k - 1)
         IN  smaller \cup {T \cup {x} : T \in smaller, x \in S}

InitWalk ==
    /\ online_updater = None /\ fast_model = None /\ delay_predictor = None
    /\ ForecastIdle
    /\ db \in SubsetsUpTo(WalkRows, MaxFlights)
    /\ ValidationIdle
    /\ SummaryIdle
    /\ UnitsIdle

NextWalk ==
    \/ RunValidation
    \/ RunFold
    \/ FinishValidation
    \/ PrintValidationSummary
    \/ RunBacktest
    \/ ValidationReturn

SpecWalk == InitWalk /\ [][NextWalk]_vars

-----------------------------------------------------------------------------
(* print_validation_summary over every small frame of fold results *)

\* largest number of rows in a frame
MaxFolds == 5

\* <<baseline Brier, hierarchical Brier>> of a fold
GateScores ==
    {<<Rat(1, 5), Rat(1, 10)>>, <<Rat(1, 10), Rat(1, 8)>>,
     <<Rat(1, 4), Rat(3, 20)>>, <<Rat(1, 4), RInt(1)>>}

\* metrics with the given Brier score
GateMetrics(brier) ==
    IF brier = RInt(1) THEN Sentinel
    ELSE [brier |-> brier, log_loss |-> None, auc |-> Rat(1, 2), ece |-> RInt(0)]

\* frames as run_validation(2019, ...) builds them, one row per test year
GateFrames ==
    UNION {{[i \in 1..n |-> FoldResult(2015, 2017 + i, 2018 + i, i, 1,
                                       GateMetrics(f[i][1]), GateMetrics(f[i][2]))] :
               f \in [1..n -> GateScores]} : n \in 0..MaxFolds}

InitGate ==
    /\ online_updater = None /\ fast_model = None /\ delay_predictor = None
    /\ ForecastIdle
    /\ db = {}
    /\ ValidationIdle
    /\ results_df \in {Some(f) : f \in GateFrames}
    /\ spc = "idle" /\ verdict = None
    /\ UnitsIdle

NextGate == PrintValidationSummary

SpecGate == InitGate /\ [][NextGate]_vars

-----------------------------------------------------------------------------
(* bayes/updater.py: one BetaBinomialModel object over its lifetime *)

\* largest number of observations the object is fed
MaxUpdates == 3

\* largest k and n passed to predictive_cdf
MaxTrials == 2

\* values passed to the constructor as alpha and beta
ShapeValues == {RInt(-1), RInt(0), Rat(1, 2), RInt(1), RInt(2)}

\* values passed to update
Observations == {-1, 0, 1, 2}

\* an update that accepts every observation
AnyObservation(observation) == TRUE

\* update's check: observation in (0, 1)
ValidObservation(observation) == observation \in {0, 1}

\* x (x + 1) ... (x + k - 1)
RECURSIVE Rising(_, _)
Rising(x, k) == IF k = 0 THEN RInt(1) ELSE RMul(Rising(x, k - 1), RAdd(x, RInt(k - 1)))

RECURSIVE Binomial(_, _)
Binomial(n, k) == IF k = 0 \/ k = n THEN 1 ELSE Binomial(n - 1, k - 1) + Binomial(n - 1, k)

\* scipy.stats.betabinom(n, a, b).cdf(k) for 0 <= k <= n
betabinom_cdf(k, n, a, b) ==
    LET pmf == [j \in 0..k |->
                   RDiv(RMul(RInt(Binomial(n, j)), RMul(Rising(a, j), Rising(b, n - j))),
                        Rising(RAdd(a, b), n))]
    IN  RSum(pmf, 0..k)

\* BetaBinomialModel.predictive_cdf: None when it raises ValueError
predictive_cdf(m, k, n) ==
    IF k < 0 \/ n < 0 \/ k > n THEN None
    ELSE Some(betabinom_cdf(k, n, m.alpha, m.beta))

\* the record of a call: its arguments, the object's fields before it, the
\* exception it raised (None if none) and the value it returned
Call(op, args, before, exc, returned) ==
    Some([op |-> op, args |-> args, before |-> before, exc |-> exc, returned |-> returned])

\* BetaBinomialModel(alpha, beta)
Create ==
    /\ bb_model = None
    /\ \E alpha \in ShapeValues, beta \in ShapeValues :
         LET made == BetaBinomialModel(alpha, beta)
         IN  /\ bb_model' = made
             /\ objects' = IF made = None THEN objects ELSE objects + 1
             /\ initial' = IF made = None THEN None ELSE Some(<<alpha, beta>>)
             /\ call' = Call("create", <<alpha, beta>>, None,
                             IF made = None THEN Some("ValueError") ELSE None, None)
    /\ observed' = <<>>
    /\ UNCHANGED <<fvars, db, wvars, gvars>>

\* model.update(observation)
Update ==
    /\ bb_model # None /\ Len(observed) < MaxUpdates
    /\ \E observation \in Observations :
         IF ValidObservation(observation)
         THEN /\ bb_model' = Some(update(Val(bb_model), observation))
              /\ observed' = Append(observed, observation)
              /\ call' = Call("update", <<observation>>, bb_model, None, None)
         ELSE /\ call' = Call("update", <<observation>>, bb_model, Some("ValueError"), None)
              /\ UNCHANGED <<bb_model, observed>>
    /\ UNCHANGED <<objects, initial, fvars, db, wvars, gvars>>

\* model.predictive_p_on_time()
PredictivePOnTime ==
    /\ bb_model # None
    /\ call' = Call("predictive_p_on_time", <<>>, bb_model, None,
                    Some(predictive_p_on_time(Val(bb_model))))
    /\ UNCHANGED <<bb_model, objects, initial, observed, fvars, db, wvars, gvars>>

\* model.predictive_cdf(k, n)
PredictiveCdf ==
    /\ bb_model # None
    /\ \E k \in -1..MaxTrials, n \in -1..MaxTrials :
         LET cdf == predictive_cdf(Val(bb_model), k, n)
         IN  call' = Call("predictive_cdf", <<k, n>>, bb_model,
                          IF cdf = None THEN Some("ValueError") ELSE None, cdf)
    /\ UNCHANGED <<bb_model, objects, initial, observed, fvars, db, wvars, gvars>>

InitUpdater ==
    /\ online_updater = None /\ fast_model = None /\ delay_predictor = None
    /\ ForecastIdle
    /\ db = {}
    /\ ValidationIdle
    /\ SummaryIdle
    /\ UnitsIdle

NextUpdater ==
    \/ Create
    \/ Update
    \/ PredictivePOnTime
    \/ PredictiveCdf

SpecUpdater == InitUpdater /\ [][NextUpdater]_vars

-----------------------------------------------------------------------------
(* bayes/prior_estimator.py: compute_beta_prior called on every small store *)

ComputeBetaPrior ==
    /\ \E route \in Routes, store \in StoreStates :
         LET prior == compute_beta_prior(route, store, db)
         IN  call' = Call("compute_beta_prior", <<route, store>>, None,
                          IF prior = None THEN Some("StoreError") ELSE None, prior)
    /\ UNCHANGED <<bb_model, objects, initial, observed, fvars, db, wvars, gvars>>

InitPrior ==
    /\ online_updater = None /\ fast_model = None /\ delay_predictor = None
    /\ ForecastIdle
    /\ db \in SubsetsUpTo(WalkRows, MaxFlights)
    /\ ValidationIdle
    /\ SummaryIdle
    /\ UnitsIdle

NextPrior == ComputeBetaPrior

SpecPrior == InitPrior /\ [][NextPrior]_vars

-----------------------------------------------------------------------------
(* bayes/delay_curve.py: one DelayPredictor asked for delays and thresholds *)

\* every curve a predictor can be built from
CurveData == {create_default_delay_curve} \cup CalculatedCurves

\* late probabilities handed to the predictor, two of them outside [0, 1]
LateProbabilities ==
    {Rat(-1, 10), RInt(0), Rat(1, 20), Rat(1, 10), Rat(1, 5), Rat(3, 10),
     Rat(2, 5), Rat(1, 2), Rat(3, 5), Rat(7, 10), Rat(4, 5), Rat(9, 10),
     Rat(19, 20), RInt(1), Rat(11, 10)}

PredictDelay ==
    /\ delay_predictor # None
    /\ \E p \in LateProbabilities :
         call' = Call("predict_delay", <<p>>, None, None,
                      Some(predict_delay(Val(delay_predictor), p)))
    /\ UNCHANGED <<bb_model, objects, initial, observed, fvars, db, wvars, gvars>>

PredictThresholdProbabilities ==
    /\ delay_predictor # None
    /\ \E p \in LateProbabilities :
         \E probs \in predict_threshold_probabilities(Val(delay_predictor), p) :
            call' = Call("predict_threshold_probabilities", <<p>>, None, None, Some(probs))
    /\ UNCHANGED <<bb_model, objects, initial, observed, fvars, db, wvars, gvars>>

InitCurve ==
    /\ online_updater = None /\ fast_model = None
    /\ delay_predictor \in {Some(DelayPredictor(c)) : c \in CurveData}
    /\ ForecastIdle
    /\ db = {}
    /\ ValidationIdle
    /\ SummaryIdle
    /\ UnitsIdle

NextCurve == PredictDelay \/ PredictThresholdProbabilities

SpecCurve == InitCurve /\ [][NextCurve]_vars

-----------------------------------------------------------------------------
(* bayes/pipeline.py: _calculate_predicted_departure.  A departure string   *)
(* is None, or <<"">>, or <<"garbage">>, or <<"iso", m, suffix>>: an ISO     *)
(* time m minutes into its day with the zone suffix "Z" or an offset.  A    *)
(* parsed datetime is [minutes, tzinfo].  timedelta's rounding to the       *)
(* microsecond is not modelled.                                             *)

\* the delay added without the clamp at zero
delay_minutesUnclamped(exp_delay_min) == exp_delay_min

\* max(0, exp_delay_min)
delay_minutes(exp_delay_min) == RMaxq(RInt(0), exp_delay_min)

\* datetime.fromisoformat(s.replace("Z", "+00:00")), None on ValueError
fromisoformat(str) ==
    IF str[1] # "iso" THEN None
    ELSE Some([minutes |-> str[2],
               tzinfo |-> IF str[3] = "Z" THEN "+00:00" ELSE str[3]])

\* datetime.isoformat()
isoformat(dt) == <<"iso", dt.minutes, dt.tzinfo>>

_calculate_predicted_departure(scheduled_dep_str, exp_delay_min) ==
    IF scheduled_dep_str = None \/ scheduled_dep_str = <<"">> THEN None
    ELSE LET sched_dt == fromisoformat(scheduled_dep_str)
         IN  IF sched_dt = None THEN None
             ELSE Some(isoformat([minutes |-> RAdd(Val(sched_dt).minutes,
                                                   delay_minutes(exp_delay_min)),
                                  tzinfo |-> Val(sched_dt).tzinfo]))

\* scheduled departures as the status API reports them
ScheduledDepStrs ==
    {None, <<"">>, <<"garbage">>, <<"iso", RInt(630), "-05:00">>,
     <<"iso", RInt(885), "Z">>, <<"iso", Rat(2871, 2), "+00:00">>}

\* expected delays, in half minutes from -3 to 15 and a few long ones
ExpDelays == {Rat(n, 2) : n \in -6..30} \cup {Rat(308, 10), RInt(60), RInt(90)}

CalculatePredictedDeparture ==
    /\ \E scheduled_dep_str \in ScheduledDepStrs, exp_delay_min \in ExpDelays :
         call' = Call("_calculate_predicted_departure",
                      <<scheduled_dep_str, exp_delay_min>>, None, None,
                      _calculate_predicted_departure(scheduled_dep_str, exp_delay_min))
    /\ UNCHANGED <<bb_model, objects, initial, observed, fvars, db, wvars, gvars>>

InitDeparture ==
    /\ online_updater = None /\ fast_model = None /\ delay_predictor = None
    /\ ForecastIdle
    /\ db = {}
    /\ ValidationIdle
    /\ SummaryIdle
    /\ UnitsIdle

NextDeparture == CalculatePredictedDeparture

SpecDeparture == InitDeparture /\ [][NextDeparture]_vars

-----------------------------------------------------------------------------
(* eval/backtest.py and eval/walk_forward.py: the Brier score and the        *)
(* calibration error of every small sample                                   *)

\* largest number of predictions in a sample
MaxSample == 3
\* largest bin count tried besides the default
MaxBins == 3

\* predicted probabilities of a sample, both ends of [0, 1] among them
SampleProbs == {RInt(0), Rat(1, 10), Rat(1, 2), RInt(1)}
BinCounts == (1..MaxBins) \cup {n_bins}

\* the samples and bin counts the metrics are asked for
MetricsInputs ==
    UNION {{<<y_true, y_prob, bins>> :
               y_true \in [1..n -> {0, 1}], y_prob \in [1..n -> SampleProbs]} :
           n \in 1..MaxSample, bins \in BinCounts}

\* brier_score(y_prob, y_true) and _expected_calibration_error(y_true, y_prob, bins)
ComputeMetrics ==
    /\ call # None /\ Val(call).op = "metrics" /\ Val(call).returned = None
    /\ LET y_true == Val(call).args[1]
           y_prob == Val(call).args[2]
           bins == Val(call).args[3]
       IN  call' = Call("metrics", Val(call).args, None, None,
                        Some([brier |-> brier_score(y_prob, y_true),
                              ece |-> _expected_calibration_error(y_true, y_prob, bins)]))
    /\ UNCHANGED <<bb_model, objects, initial, observed, fvars, db, wvars, gvars>>

InitMetrics ==
    /\ online_updater = None /\ fast_model = None /\ delay_predictor = None
    /\ ForecastIdle
    /\ db = {}
    /\ ValidationIdle
    /\ SummaryIdle
    /\ bb_model = None /\ objects = 0 /\ initial = None /\ observed = <<>>
    /\ call \in {Call("metrics", args, None, None, None) : args \in MetricsInputs}

NextMetrics == ComputeMetrics

SpecMetrics == InitMetrics /\ [][NextMetrics]_vars

-----------------------------------------------------------------------------
(* .ci/check_regression.py.  A file is <<"missing">>, <<"invalid">> (not     *)
(* JSON) or <<"json", value>>; a JSON value is [kind, items]: a list of      *)
(* fold dictionaries or a dictionary.  A missing key and a JSON null both    *)
(* read as None.  The outcome is the exit status of the process and the      *)
(* exception that ended it, if one did: an uncaught exception ends the       *)
(* interpreter with status 1.                                                *)

\* an equal score counted as a regression
regressedOrEqual(hier_brier, target_brier) == RLe(target_brier, hier_brier)

\* hier_brier > target_brier
regressed(hier_brier, target_brier) == RLt(target_brier, hier_brier)

Exit(status, exc) == [status |-> status, exc |-> exc]

check_regression(results_file, target_file) ==
    IF results_file[1] = "missing" THEN Exit(1, None)
    ELSE IF target_file[1] = "missing" THEN Exit(1, None)
    ELSE IF results_file[1] = "invalid" THEN Exit(1, None)
    ELSE IF target_file[1] = "invalid" THEN Exit(1, Some("JSONDecodeError"))
    ELSE LET results_json == results_file[2]
             target == target_file[2]
         IN  IF Len(results_json.items) = 0 THEN Exit(1, None)
             ELSE IF results_json.kind = "dict" THEN Exit(1, Some("KeyError"))
             ELSE LET hier_brier == results_json.items[1].hier_brier
                  IN  IF hier_brier = None THEN Exit(1, None)
                      ELSE IF target.kind = "list" THEN Exit(1, Some("AttributeError"))
                      ELSE LET target_brier ==
                                   IF Len(target.items) = 0 THEN None
                                   ELSE target.items[1].brier_score_target
                           IN  IF target_brier = None THEN Exit(1, None)
                               ELSE IF regressed(Val(hier_brier), Val(target_brier))
                                    THEN Exit(1, None)
                                    ELSE Exit(0, None)

\* largest number of folds in a results file
MaxGateFolds == 2

\* Brier scores found in the files
FileBriers == {Rat(1, 10), Rat(1, 5), Rat(3, 10)}
FoldEntries == {[hier_brier |-> b] : b \in {None} \cup {Some(x) : x \in FileBriers}}

ResultsFiles ==
    {<<"missing">>, <<"invalid">>}
    \cup {<<"json", [kind |-> "list", items |-> fs]>> :
             fs \in UNION {[1..n -> FoldEntries] : n \in 0..MaxGateFolds}}
    \cup {<<"json", [kind |-> "dict", items |-> <<>>]>>,
          <<"json", [kind |-> "dict", items |-> <<[hier_brier |-> Some(Rat(1, 10))]>>]>>}

TargetFiles ==
    {<<"missing">>, <<"invalid">>}
    \cup {<<"json", [kind |-> "dict", items |-> <<>>]>>}
    \cup {<<"json", [kind |-> "dict", items |-> <<[brier_score_target |-> t]>>]>> :
             t \in {None} \cup {Some(x) : x \in FileBriers}}
    \cup {<<"json", [kind |-> "list", items |-> <<[brier_score_target |-> Some(Rat(1, 5))]>>]>>}

\* python check_regression.py <results> <target>
CheckRegression ==
    /\ call # None /\ Val(call).op = "check_regression" /\ Val(call).returned = None
    /\ LET out == check_regression(Val(call).args[1], Val(call).args[2])
       IN  call' = Call("check_regression", Val(call).args, None, out.exc, Some(out.status))
    /\ UNCHANGED <<bb_model, objects, initial, observed, fvars, db, wvars, gvars>>

InitRegression ==
    /\ online_updater = None /\ fast_model = None /\ delay_predictor = None
    /\ ForecastIdle
    /\ db = {}
    /\ ValidationIdle
    /\ SummaryIdle
    /\ bb_model = None /\ objects = 0 /\ initial = None /\ observed = <<>>
    /\ call \in {Call("check_regression", <<r, t>>, None, None, None) :
                    r \in ResultsFiles, t \in TargetFiles}

NextRegression == CheckRegression

SpecRegression == InitRegression /\ [][NextRegression]_vars

-----------------------------------------------------------------------------
(* Properties of the forecast pipeline *)

\* the tier whose value the call carries (the last one entered)
Producer == attempts[Len(attempts)].tier

\* the flight status reported a live observation
LiveObservationReported ==
    /\ status_info # None
    /\ Val(status_info).status \in {"active", "landed"}
    /\ Val(status_info).delay_minutes # None

\* C1: within one request the tiers are entered in the order 1, 2, 3; a tier is
\* entered only when every tier entered before it yielded no probability; the
\* last tier entered is the one whose value is p_late, and the value returned.
C1_TiersInOrder ==
    /\ \A i, j \in 1..Len(attempts) :
         i < j => attempts[i].tier < attempts[j].tier /\ attempts[i].p = None
    /\ attempts # <<>> => p_late = attempts[Len(attempts)].p
    /\ result # None =>
         /\ attempts # <<>>
         /\ attempts[Len(attempts)].p = Some(Val(result).p_late)

\* C1 witness: Tier 1 was entered and yielded nothing, Tier 2 answered, and
\* the result carries Tier 2's value
C1_Witness ==
    /\ result # None
    /\ Len(attempts) = 2
    /\ attempts[1].tier = 1 /\ attempts[1].p = None
    /\ attempts[2].tier = 2 /\ attempts[2].p = Some(Val(result).p_late)
    /\ "hier_raised" \in conditions

\* conditions that end a request with an exception
FatalConditions ==
    {"status_fetch_failed", "origin_dest_missing", "route_history_store_error",
     "delay_curve_malformed"}

C7_SharedArtifactsReadOnly ==
    [][/\ online_updater # None => online_updater' = online_updater
       /\ fast_model # None => fast_model' = fast_model
       /\ delay_predictor # None => delay_predictor' = delay_predictor]_vars

\* the tier the result's flags point at
IndicatedTier(r) ==
    IF r.hierarchical_used THEN 1 ELSE IF r.fast_model_used THEN 2 ELSE 3

\* C8: the provenance flags of a result name the tier that produced p_late.
C8_ProvenanceNamesProducer ==
    result # None => IndicatedTier(Val(result)) = Producer

\* C9 as claimed: a live observation is consumed by exactly one posterior
\* update before the probability is returned, whichever tier produces it.
C9_ObservationConsumedOnce ==
    (result # None /\ LiveObservationReported) => Len(fed) = 1

\* C9 amended: a live observation is consumed by exactly one posterior update
\* when Tier 1 or Tier 3 produces the probability and by none when Tier 2
\* produces it; it is never consumed twice.
C9_ObservationConsumedOnceUnlessTier2 ==
    (result # None /\ LiveObservationReported) =>
        Len(fed) = (IF Producer = 2 THEN 0 ELSE 1)

\* C9 witness: Tier 1 raised, Tier 2 had no model, Tier 3 answered a request
\* with a live observation after one update
C9_Witness ==
    /\ result # None /\ LiveObservationReported
    /\ Len(attempts) = 3 /\ Producer = 3
    /\ "hier_raised" \in conditions
    /\ Len(fed) = 1

\* C10: the observation fed to a posterior update is 1 exactly when the
\* reported delay is at least 15 minutes.
C10_LateMeansAtLeast15 ==
    \A i \in 1..Len(fed) :
        fed[i] = (IF Val(Val(status_info).delay_minutes) >= 15 THEN 1 ELSE 0)

-----------------------------------------------------------------------------
(* Properties of the validation *)

\* every baseline run on record: those of the folds and that of the backtest
BaselineRuns ==
    UNION {folds[i].runs : i \in 1..Len(folds)}
    \cup (IF backtest = None THEN {} ELSE {Val(backtest).run})

\* Jeffreys prior plus the late / on-time counts of the route's flights dated
\* within [first_year, last_year]
WindowPrior(route, first_year, last_year) ==
    LET c == _query_counts(route, _load_data(first_year, last_year, db))
    IN  <<RAdd(Rat(1, 2), RInt(c[2])), RAdd(Rat(1, 2), RInt(c[1] - c[2]))>>

\* C3: in every fold, the prior that seeds a route's baseline model is the
\* Jeffreys prior plus the counts of that route's flights inside the fold's
\* training window [train_start, train_end]; no flight of the test year
\* contributes to it.
C3_SeedFromTrainingWindow ==
    \A i \in 1..Len(folds) :
        \A run \in folds[i].runs :
            run.seed = WindowPrior(run.route, folds[i].train_start, folds[i].train_end)

\* number of late flights among the first k of a sequence of flights
LateAmong(flights, k) == Cardinality({j \in 1..k : flights[j].late = 1})

\* C4: in every baseline run (walk-forward fold and backtest) the flights are
\* walked in non-decreasing date order, each exactly once, and the i-th
\* recorded prediction is the posterior mean of the seed prior updated with
\* the outcomes of the flights walked before it:
\* (alpha0 + late among the first i-1) / (alpha0 + beta0 + i - 1);
\* it depends on no outcome of the i-th or a later flight.
C4_PredictBeforeUpdate ==
    \A run \in BaselineRuns :
        /\ Len(run.preds) = Len(run.flights)
        /\ \A i, j \in 1..Len(run.flights) :
             i < j => run.flights[i] # run.flights[j] /\ DateLe(run.flights[i], run.flights[j])
        /\ \A i \in 1..Len(run.flights) :
             run.preds[i] = RDiv(RAdd(run.seed[1], RInt(LateAmong(run.flights, i - 1))),
                                 RAdd(RAdd(run.seed[1], run.seed[2]), RInt(i - 1)))

\* C4 witness: a recorded fold walked two flights of a route, an on-time one
\* on an earlier day before a late one, and the two predictions differ
C4_Witness ==
    \E i \in 1..Len(folds) :
        \E run \in folds[i].runs :
            /\ folds[i].outcome = "recorded"
            /\ Len(run.flights) = 2
            /\ run.flights[1].day < run.flights[2].day
            /\ run.flights[1].late = 0 /\ run.flights[2].late = 1
            /\ run.preds[1] # run.preds[2]

\* the smallest integer that is at least 0.8 * n
CeilEightTenths(n) == (8 * n + 9) \div 10

\* C5: the verdict over a non-empty frame is PASS exactly when the mean
\* hierarchical Brier score is at most 0.125 and the hierarchical model won
\* at least ceil(0.8 * number of folds) folds.
C5_PassIffCeilOfEightyPercent ==
    verdict # None =>
        LET frame == Val(results_df)
            n == Len(frame)
            mean == RDiv(SumSeq([i \in 1..n |-> frame[i].hier_brier]), RInt(n))
            wins == Cardinality({i \in 1..n : frame[i].hier_wins})
        IN  Val(verdict).overall_pass <=> (RLe(mean, Rat(1, 8)) /\ wins >= CeilEightTenths(n))

\* C6: a fold in which a model failed, the baseline as well as the
\* hierarchical one, is recorded with that model's metrics set to the
\* sentinel, and the run goes on to the next test year.
C6_ModelFailureYieldsSentinel ==
    \A i \in 1..Len(folds) :
        LET t == folds[i]
        IN  (t.baseline_failed \/ t.hier_failed) =>
                /\ t.outcome = "recorded"
                /\ \E k \in 1..Len(results) :
                     /\ results[k].test_year = t.test_year
                     /\ t.hier_failed =>
                          /\ results[k].hier_brier = Sentinel.brier
                          /\ results[k].hier_log_loss = Sentinel.log_loss
                          /\ results[k].hier_auc = Sentinel.auc
                          /\ results[k].hier_ece = Sentinel.ece
                     /\ t.baseline_failed =>
                          /\ results[k].baseline_brier = Sentinel.brier
                          /\ results[k].baseline_log_loss = Sentinel.log_loss
                          /\ results[k].baseline_auc = Sentinel.auc
                          /\ results[k].baseline_ece = Sentinel.ece

\* the fold of a trace had an empty training window or an empty partition
NothingToEvaluate(t) ==
    \/ t.train_end < t.train_start
    \/ _load_data(t.train_start, t.train_end, db) = {}
    \/ _load_data(t.test_year, t.test_year, db) = {}

C12_ExpandingWindowInYearOrder ==
    /\ \A i \in 1..Len(folds) :
         /\ folds[i].test_year = Val(vargs).start_year + i - 1
         /\ folds[i].test_year <= Val(vargs).end_year
         /\ folds[i].train_start = Val(vargs).start_year - 4
         /\ folds[i].train_end = folds[i].test_year - 1
    /\ \A k \in 1..Len(results) :
         /\ results[k].train_start = Val(vargs).start_year - 4
         /\ results[k].train_end = results[k].test_year - 1
         /\ results[k].test_year \in Val(vargs).start_year..Val(vargs).end_year
         /\ \E i \in 1..Len(folds) :
              folds[i].outcome = "recorded" /\ folds[i].test_year = results[k].test_year
    /\ \A k, l \in 1..Len(results) :
         k < l => /\ results[k].test_year < results[l].test_year
                  /\ results[k].train_end < results[l].train_end

\* C12 witness: two folds were recorded, for consecutive test years
C12_Witness ==
    /\ Len(results) = 2
    /\ results[2].test_year = results[1].test_year + 1
    /\ results[1].train_size < results[2].train_size

-----------------------------------------------------------------------------
(* Properties of the BetaBinomialModel object *)

\* the last call was op and it returned without an exception
Returned(op) == call # None /\ Val(call).op = op /\ Val(call).exc = None

\* the last call was op and it raised
Raised(op) == call # None /\ Val(call).op = op /\ Val(call).exc # None

\* C13: an update(1) that returns has increased alpha by exactly 1 and left
\* beta as it was, an update(0) that returns has increased beta by exactly 1
\* and left alpha as it was; the call returns nothing and no further object
\* has been constructed.
C13_UpdateIncrementsOneParameter ==
    Returned("update") =>
        LET before == Val(Val(call).before)
            after == Val(bb_model)
        IN  /\ Val(call).args[1] = 1 =>
                 after.alpha = RAdd(before.alpha, RInt(1)) /\ after.beta = before.beta
            /\ Val(call).args[1] = 0 =>
                 after.beta = RAdd(before.beta, RInt(1)) /\ after.alpha = before.alpha
            /\ Val(call).returned = None
            /\ objects = 1

\* C13 witness: the object created with (0.5, 0.5) has just been updated with
\* a late observation and holds (1.5, 0.5); its predictive on-time
\* probability is 0.25
C13_Witness ==
    /\ Returned("update")
    /\ initial = Some(<<Rat(1, 2), Rat(1, 2)>>)
    /\ observed = <<1>>
    /\ bb_model = Some([alpha |-> Rat(3, 2), beta |-> Rat(1, 2)])
    /\ predictive_p_on_time(Val(bb_model)) = Rat(1, 4)

\* C14: an update with an observation other than 0 and 1 raises ValueError to
\* its caller and leaves alpha and beta as they were.
C14_NonBinaryObservationRejected ==
    (call # None /\ Val(call).op = "update" /\ Val(call).args[1] \notin {0, 1}) =>
        /\ Val(call).exc = Some("ValueError")
        /\ bb_model = Val(call).before
        /\ \A i \in 1..Len(observed) : observed[i] \in {0, 1}

\* C14 witness: after two accepted observations an update(2) raised
C14_Witness ==
    /\ Raised("update")
    /\ Val(call).args = <<2>>
    /\ Len(observed) = 2

\* C15: the constructor raises ValueError exactly when alpha or beta is not
\* strictly positive, and then no object exists; every object that exists has
\* alpha > 0 and beta > 0, right after construction and after every update.
C15_ParametersStrictlyPositive ==
    /\ bb_model # None =>
         RLt(RInt(0), Val(bb_model).alpha) /\ RLt(RInt(0), Val(bb_model).beta)
    /\ (call # None /\ Val(call).op = "create") =>
         /\ (Val(call).exc = Some("ValueError")) <=>
                ~(RLt(RInt(0), Val(call).args[1]) /\ RLt(RInt(0), Val(call).args[2]))
         /\ (Val(call).exc # None) <=> (bb_model = None)
         /\ (bb_model = None) <=> (objects = 0)

\* C15 witness: construction with alpha = 0.5 and beta = 0 raised
C15_Witness ==
    /\ Raised("create")
    /\ Val(call).args = <<Rat(1, 2), RInt(0)>>
    /\ bb_model = None

\* C16: no step in the life of the object, whether an update, a query or a
\* call that raises, decreases alpha or beta.
C16_ParametersNeverDecrease ==
    [][(bb_model # None /\ bb_model' # None) =>
          /\ RLe(Val(bb_model).alpha, Val(bb_model').alpha)
          /\ RLe(Val(bb_model).beta, Val(bb_model').beta)]_vars

\* C16 witness: after updates of both kinds a predictive_cdf call raised and
\* the parameters are the initial ones plus the counts observed
C16_Witness ==
    /\ Raised("predictive_cdf")
    /\ observed = <<1, 0, 1>>
    /\ Val(bb_model).alpha = RAdd(Val(initial)[1], RInt(2))
    /\ Val(bb_model).beta = RAdd(Val(initial)[2], RInt(1))

\* posterior mean of late
MeanLate(alpha, beta) == RDiv(alpha, RAdd(alpha, beta))

\* C17: after k >= 1 updates, all with observation 1, the posterior mean
\* alpha / (alpha + beta) is strictly greater than it was at construction.
C17_LateUpdatesRaiseMean ==
    (bb_model # None /\ observed # <<>> /\ \A i \in 1..Len(observed) : observed[i] = 1) =>
        RLt(MeanLate(Val(initial)[1], Val(initial)[2]),
            MeanLate(Val(bb_model).alpha, Val(bb_model).beta))

\* C17 witness: three late observations on an object created with (2, 0.5)
C17_Witness ==
    /\ initial = Some(<<RInt(2), Rat(1, 2)>>)
    /\ observed = <<1, 1, 1>>
    /\ bb_model = Some([alpha |-> RInt(5), beta |-> Rat(1, 2)])

-----------------------------------------------------------------------------
(* Properties of the prior estimator *)

\* C18: for a store that can be read, compute_beta_prior returns
\* (0.5 + k, 0.5 + (n - k), n) where n is the number of the route's rows and k
\* the number of them that are late, which is (0.5, 0.5, 0) for a route
\* without rows; for a store that is missing, cannot be opened or has no
\* table it returns (0.5, 0.5, 0); in none of these cases does it raise.
C18_PriorIsJeffreysPlusCounts ==
    (call # None /\ Val(call).op = "compute_beta_prior") =>
        LET route == Val(call).args[1]
            store == Val(call).args[2]
            n == Cardinality({r \in db : r.route = route})
            k == Cardinality({r \in db : r.route = route /\ r.late = 1})
        IN  /\ store = "ok" =>
                 /\ Val(call).exc = None
                 /\ Val(call).returned =
                        Some(<<RAdd(Rat(1, 2), RInt(k)), RAdd(Rat(1, 2), RInt(n - k)), n>>)
            /\ store \in {"missing", "unopenable", "no_table"} =>
                 /\ Val(call).exc = None
                 /\ Val(call).returned = Some(<<Rat(1, 2), Rat(1, 2), 0>>)

\* C18 witness: the store holds flights of the route but cannot be opened,
\* and the Jeffreys prior came back
C18_Witness ==
    /\ call # None /\ Val(call).op = "compute_beta_prior"
    /\ Val(call).args[2] = "unopenable"
    /\ \E r \in db : r.route = Val(call).args[1] /\ r.late = 1
    /\ Val(call).exc = None
    /\ Val(call).returned = Some(<<Rat(1, 2), Rat(1, 2), 0>>)

-----------------------------------------------------------------------------
(* Properties of the delay predictor *)

\* C19: for every p in [0, 1], predict_threshold_probabilities(p) returns
\* p15 >= p30 >= p45 >= p60, all four within [0, 1], and p15 equal to p.
C19_ThresholdsMonotoneInUnitInterval ==
    (/\ call # None
     /\ Val(call).op = "predict_threshold_probabilities"
     /\ RLeq(RInt(0), Val(call).args[1])
     /\ RLeq(Val(call).args[1], RInt(1))) =>
        LET probs == Val(Val(call).returned)
        IN  /\ probs.p_late_15 = Val(call).args[1]
            /\ RLeq(probs.p_late_15, RInt(1))
            /\ RLeq(probs.p_late_30, probs.p_late_15)
            /\ RLeq(probs.p_late_45, probs.p_late_30)
            /\ RLeq(probs.p_late_60, probs.p_late_45)
            /\ RLeq(RInt(0), probs.p_late_60)

\* C19 witness: a probability on the decay branch where the factor is 1 and
\* the 80% caps decide all three values
C19_Witness ==
    /\ call # None
    /\ Val(call).op = "predict_threshold_probabilities"
    /\ Val(call).args[1] = Rat(9, 10)
    /\ Val(Val(call).returned).p_late_30 = Rat(18, 25)
    /\ Val(Val(call).returned).p_late_45 = Rat(72, 125)
    /\ Val(Val(call).returned).p_late_60 = Rat(288, 625)

-----------------------------------------------------------------------------
(* Properties of the forecast result's delay figures *)

\* C20: whichever tier produced the probability, a forecast result has
\* 0 <= p_late_60 <= p_late_45 <= p_late_30 <= p_late <= 1 and an expected
\* delay exp_delay_min >= 0.
C20_ResultOrderedAndDelayNonNegative ==
    result # None =>
        /\ RLeq(RInt(0), Val(result).p_late_60)
        /\ RLeq(Val(result).p_late_60, Val(result).p_late_45)
        /\ RLeq(Val(result).p_late_45, Val(result).p_late_30)
        /\ RLeq(Val(result).p_late_30, Val(result).p_late)
        /\ RLeq(Val(result).p_late, RInt(1))
        /\ RLeq(RInt(0), Val(result).exp_delay_min)

\* the probability chain alone
C20_ProbabilitiesOrdered ==
    result # None =>
        /\ RLeq(RInt(0), Val(result).p_late_60)
        /\ RLeq(Val(result).p_late_60, Val(result).p_late_45)
        /\ RLeq(Val(result).p_late_45, Val(result).p_late_30)
        /\ RLeq(Val(result).p_late_30, Val(result).p_late)
        /\ RLeq(Val(result).p_late, RInt(1))

\* a result whose expected delay is negative
C20_NegativeDelayReported ==
    /\ result # None
    /\ ~RLeq(RInt(0), Val(result).exp_delay_min)

-----------------------------------------------------------------------------
(* Properties of predict_delay *)

\* C21: for every delay curve a DelayPredictor can be loaded or built with
\* and every p in [0, 1], predict_delay(p) >= 0, and predict_delay is
\* non-decreasing in p.
C21_DelayNonNegativeAndMonotone ==
    (/\ call # None
     /\ Val(call).op = "predict_delay"
     /\ RLeq(RInt(0), Val(call).args[1])
     /\ RLeq(Val(call).args[1], RInt(1))) =>
        /\ RLeq(RInt(0), Val(Val(call).returned))
        /\ \A q \in LateProbabilities :
             (RLeq(RInt(0), q) /\ RLeq(q, Val(call).args[1])) =>
                 RLeq(predict_delay(Val(delay_predictor), q), Val(Val(call).returned))

\* the monotone half alone
C21_DelayMonotone ==
    (/\ call # None
     /\ Val(call).op = "predict_delay"
     /\ RLeq(RInt(0), Val(call).args[1])
     /\ RLeq(Val(call).args[1], RInt(1))) =>
        \A q \in LateProbabilities :
           (RLeq(RInt(0), q) /\ RLeq(q, Val(call).args[1])) =>
               RLeq(predict_delay(Val(delay_predictor), q), Val(Val(call).returned))

-----------------------------------------------------------------------------
(* Properties of the predicted departure *)

\* C22: the predicted departure is never earlier than the scheduled one: it
\* is the scheduled time when the delay is <= 0 and the scheduled time plus
\* the delay when it is > 0; for a missing or unparseable scheduled time the
\* function returns None and raises nothing.
C22_PredictedDepartureNeverEarlier ==
    (call # None /\ Val(call).op = "_calculate_predicted_departure") =>
        LET scheduled == Val(call).args[1]
            delay == Val(call).args[2]
            out == Val(call).returned
        IN  /\ Val(call).exc = None
            /\ IF scheduled = None \/ scheduled[1] # "iso" THEN out = None
               ELSE /\ out # None
                    /\ Val(out)[1] = "iso"
                    /\ Val(out)[3] = (IF scheduled[3] = "Z" THEN "+00:00" ELSE scheduled[3])
                    /\ RLeq(scheduled[2], Val(out)[2])
                    /\ RLeq(delay, RInt(0)) => Val(out)[2] = scheduled[2]
                    /\ ~RLeq(delay, RInt(0)) => Val(out)[2] = RAdd(scheduled[2], delay)

\* C22 witness: a negative expected delay on a parseable schedule, answered
\* with the scheduled time itself
C22_Witness ==
    /\ call # None /\ Val(call).op = "_calculate_predicted_departure"
    /\ Val(call).args[1] = <<"iso", RInt(885), "Z">>
    /\ Val(call).args[2] = RInt(-2)
    /\ Val(call).returned = Some(<<"iso", RInt(885), "+00:00">>)

-----------------------------------------------------------------------------
(* Properties of the fold records *)

\* C23: every recorded fold has brier_improvement = baseline_brier -
\* candidate_brier and wins exactly when candidate_brier < baseline_brier
\* (a tie is not a win), so wins holds if and only if brier_improvement > 0.
C23_WinsIffStrictImprovement ==
    \A i \in 1..Len(results) :
       LET r == results[i]
       IN  /\ r.brier_improvement = RSub(r.baseline_brier, r.hier_brier)
           /\ r.hier_wins <=> RLt(r.hier_brier, r.baseline_brier)
           /\ r.hier_wins <=> RLt(RInt(0), r.brier_improvement)

\* C23 witness: a recorded fold where both models scored the same, and one
\* where the candidate scored better
C23_Witness ==
    /\ \E i \in 1..Len(results) :
          /\ results[i].hier_brier = results[i].baseline_brier
          /\ ~results[i].hier_wins
    /\ \E i \in 1..Len(results) : results[i].hier_wins

-----------------------------------------------------------------------------
(* Properties of the metrics *)

\* C24: for predictions in [0, 1] and binary labels, the Brier score and the
\* expected calibration error, for any bin count n_bins >= 1, lie in [0, 1].
C24_BrierAndEceInUnitInterval ==
    (call # None /\ Val(call).op = "metrics" /\ Val(call).returned # None) =>
        LET m == Val(Val(call).returned)
        IN  /\ RLe(RInt(0), m.brier) /\ RLe(m.brier, RInt(1))
            /\ RLe(RInt(0), m.ece) /\ RLe(m.ece, RInt(1))

\* C24 witness: two predictions, each certain and wrong, in three bins: the
\* Brier score is 1; the prediction 0 lies in no bin, so the calibration
\* error is the half contributed by the prediction 1
C24_Witness ==
    /\ call # None /\ Val(call).op = "metrics"
    /\ Val(call).args = <<<<1, 0>>, <<RInt(0), RInt(1)>>, 3>>
    /\ Val(call).returned # None
    /\ Val(Val(call).returned).brier = RInt(1)
    /\ Val(Val(call).returned).ece = Rat(1, 2)

-----------------------------------------------------------------------------
(* Properties of the regression gate *)

\* both files are JSON of the expected shape with both scores present
WellFormedGateInput(results_file, target_file) ==
    /\ results_file[1] = "json" /\ target_file[1] = "json"
    /\ results_file[2].kind = "list" /\ Len(results_file[2].items) > 0
    /\ results_file[2].items[1].hier_brier # None
    /\ target_file[2].kind = "dict" /\ Len(target_file[2].items) > 0
    /\ target_file[2].items[1].brier_score_target # None

\* C25: the regression gate exits with 0 exactly when the run's candidate
\* Brier score is not worse than (<=) the stored target, and with 1 when it
\* is worse or when a file is missing or malformed; it never exits with 0 on
\* malformed input.
C25_GateExitsZeroIffNotWorse ==
    (call # None /\ Val(call).op = "check_regression" /\ Val(call).returned # None) =>
        LET results_file == Val(call).args[1]
            target_file == Val(call).args[2]
            status == Val(Val(call).returned)
        IN  /\ status \in {0, 1}
            /\ status = 0 <=>
                 /\ WellFormedGateInput(results_file, target_file)
                 /\ RLe(Val(results_file[2].items[1].hier_brier),
                        Val(target_file[2].items[1].brier_score_target))

\* C25 witness: the candidate's score equals the target and the gate passes
C25_Witness ==
    /\ call # None /\ Val(call).op = "check_regression"
    /\ WellFormedGateInput(Val(call).args[1], Val(call).args[2])
    /\ Val(call).args[1][2].items[1].hier_brier = Some(Rat(1, 5))
    /\ Val(call).args[2][2].items[1].brier_score_target = Some(Rat(1, 5))
    /\ Val(call).returned = Some(0)

-----------------------------------------------------------------------------
(* Properties of a hierarchical model persisted without its trace *)

\* C26: loading a persisted hierarchical model whose trace file is missing
\* does not fail: load returns a model whose predict raises; the request that
\* met it has no Tier 1 (the updater stays unloaded, Tier 1 yields nothing),
\* goes on to the next tier, and fails only for another, fatal reason.
C26_MissingTraceDegradesTier1 ==
    "hier_trace_missing" \in conditions =>
        /\ \A intercept \in TraceIntercepts :
              /\ load("no_trace", intercept) # None
              /\ predict_raises(Val(load("no_trace", intercept)))
        /\ online_updater = None
        /\ attempts # <<>> /\ attempts[1] = [tier |-> 1, p |-> None]
        /\ pc \in {"tier2", "tier3", "finish", "done"}
        /\ error # None => conditions \cap FatalConditions # {}
        /\ (pc = "done" /\ error = None) =>
              /\ result # None
              /\ ~Val(result).hierarchical_used
              /\ Producer \in {2, 3}

\* C26 witness: a request met the model without trace and was answered by the
\* fast classifier
C26_Witness ==
    /\ "hier_trace_missing" \in conditions
    /\ pc = "done" /\ result # None
    /\ Producer = 2 /\ Val(result).fast_model_used

-----------------------------------------------------------------------------
(* Properties of the threshold probabilities *)

\* C27: for a base probability in [0, 1], each higher-threshold probability
\* is at most 80% of the previous one (p30 <= 0.8 p15, p45 <= 0.8 p30,
\* p60 <= 0.8 p45) and is >= 0, in the decay regime (expected delay >= 15,
\* 15 itself included) as in the low-delay regime (expected delay < 15),
\* where the values are 0.3, 0.1 and 0.05 of p15.
C27_EachThresholdAtMostEightyPercent ==
    (/\ call # None
     /\ Val(call).op = "predict_threshold_probabilities"
     /\ RLeq(RInt(0), Val(call).args[1])
     /\ RLeq(Val(call).args[1], RInt(1))) =>
        LET probs == Val(Val(call).returned)
            p == Val(call).args[1]
            expected_delay == predict_delay(Val(delay_predictor), p)
        IN  /\ RLeq(probs.p_late_30, RMul(Rat(4, 5), probs.p_late_15))
            /\ RLeq(probs.p_late_45, RMul(Rat(4, 5), probs.p_late_30))
            /\ RLeq(probs.p_late_60, RMul(Rat(4, 5), probs.p_late_45))
            /\ RLeq(RInt(0), probs.p_late_30)
            /\ RLeq(RInt(0), probs.p_late_45)
            /\ RLeq(RInt(0), probs.p_late_60)
            /\ RLt(expected_delay, RInt(15)) =>
                  /\ probs.p_late_30 = RMul(Rat(3, 10), p)
                  /\ probs.p_late_45 = RMul(Rat(1, 10), p)
                  /\ probs.p_late_60 = RMul(Rat(1, 20), p)

\* C27 witness: the default curve at p = 0.8, where the expected delay is
\* exactly 15, answered on the decay branch with the factor 1 capped at 80%
C27_Witness ==
    /\ call # None
    /\ Val(call).op = "predict_threshold_probabilities"
    /\ delay_predictor = Some(DelayPredictor(create_default_delay_curve))
    /\ Val(call).args[1] = Rat(4, 5)
    /\ predict_delay(Val(delay_predictor), Rat(4, 5)) = RInt(15)
    /\ Val(Val(call).returned).p_late_30 = Rat(16, 25)
    /\ Val(Val(call).returned).p_late_45 = Rat(64, 125)

-----------------------------------------------------------------------------
(* Properties of the lazy loaders *)

\* conditions a step has just met
NewConditions == conditions' \ conditions

\* C28: each shared artifact is loaded lazily and a successful load is
\* cached: a loaded updater, classifier or delay predictor stays the one that
\* is used (the updater's fields change only by the request's own posterior
\* update, never by a reload); a failed hierarchical or fast-model load
\* leaves the cache empty, to be tried again by a later call; and
\* _get_delay_predictor, when it returns, never returns None.
C28_LoadedArtifactsAreCached ==
    [][/\ fast_model # None => fast_model' = fast_model
       /\ delay_predictor # None => delay_predictor' = delay_predictor
       /\ online_updater # None =>
             /\ online_updater' # None
             /\ online_updater' # online_updater => (pc = "tier1" /\ hier_updated')
       /\ NewConditions \cap {"hier_artifact_missing", "hier_artifact_unloadable",
                              "hier_trace_missing"} # {} => online_updater' = None
       /\ NewConditions \cap {"fast_artifact_missing", "fast_artifact_unloadable"} # {}
             => fast_model' = None
       /\ (pc = "finish" /\ error' = None) => delay_predictor' # None]_vars

\* C28 witness: the classifier could not be loaded when Tier 2 asked for it,
\* a later call of the same request loaded it, and the updater and the delay
\* predictor are loaded as well
C28_Witness ==
    /\ "fast_artifact_unloadable" \in conditions
    /\ fast_model # None
    /\ online_updater # None
    /\ delay_predictor # None
    /\ pc = "done"

-----------------------------------------------------------------------------
(* Properties of folds whose candidate model failed *)

\* the recorded folds in which the candidate model raised
FailedFolds == {i \in 1..Len(folds) : folds[i].outcome = "recorded" /\ folds[i].hier_failed}

\* C29: a fold in which the candidate model failed carries the sentinel
\* Brier score 1 and is never a candidate win, whatever the baseline scored
\* (the sentinel included); so the wins the acceptance gate counts are at
\* most the recorded folds in which the candidate did not fail.
C29_FailedFoldNeverWins ==
    /\ \A i \in FailedFolds :
          \A j \in 1..Len(results) :
             results[j].test_year = folds[i].test_year =>
                 /\ results[j].hier_brier = RInt(1)
                 /\ ~results[j].hier_wins
    /\ ~hier_wins(Sentinel.brier, Sentinel.brier)
    /\ (verdict # None /\ results_df = Some(results)) =>
          /\ Cardinality({j \in 1..Len(results) : results[j].hier_wins})
                 <= Len(results) - Cardinality(FailedFolds)
          /\ Val(verdict).wins_ok =>
                 Len(results) - Cardinality(FailedFolds)
                     >= Max(1, IntEightTenths(Len(results)))

\* C29 witness: a summarised run of two folds, one that the candidate won and
\* one in which it failed
C29_Witness ==
    /\ FailedFolds # {}
    /\ Len(results) = 2
    /\ \E j \in 1..Len(results) : results[j].hier_wins
    /\ verdict # None /\ results_df = Some(results)

-----------------------------------------------------------------------------
(* Properties of the value run_validation returns *)

\* run_validation has ended
ValidationEnded == vpc = "done" /\ vargs # None

\* C30: run_validation never returns an empty sequence: when it returns, the
\* frame has at least one fold record; when it ends with every fold skipped
\* it raises ValueError ("No valid folds completed") and leaves the
\* validator's stored results as they were; the stored results are replaced
\* only by a non-empty list, and a verdict is never computed over zero folds.
C30_NeverReturnsEmpty ==
    /\ results_df # None => Len(Val(results_df)) >= 1
    /\ (ValidationEnded /\ verror = None) =>
          /\ results_df = Some(results)
          /\ validator_results = results
    /\ (ValidationEnded /\ \A i \in 1..Len(folds) : folds[i].outcome = "skipped") =>
          /\ verror = Some("ValueError")
          /\ results_df = None
          /\ validator_results = <<>>
    /\ validator_results # <<>> => validator_results = results /\ Len(results) >= 1
    /\ verdict # None => (results_df # None /\ Len(Val(results_df)) >= 1)

\* C30 witness: a run whose two test years were both skipped for lack of
\* data, ended by the ValueError
C30_Witness ==
    /\ ValidationEnded
    /\ Len(folds) = 2
    /\ \A i \in 1..Len(folds) : folds[i].outcome = "skipped"
    /\ verror = Some("ValueError")
    /\ results_df = None

====
